---- MODULE Spec2Model ----
(***************************************************************************)
(* Storage provider registry, factory and backends of large-file-uploads   *)
(* (package storage: storage.go, factory.go, minio.go, azure.go), the      *)
(* environment overrides of package config, and main() of cmd/server.      *)
(*                                                                         *)
(* Go strings are TLA+ strings, except the values of environment           *)
(* variables, which are tuples of one-character strings so that            *)
(* strings.ToLower can be computed character by character.  An error is    *)
(* the tuple of the messages / sentinels of its %w chain, outermost first; *)
(* the nil error is << >>.  Pointers are object ids; "nil" / id 0 is nil.  *)
(***************************************************************************)
EXTENDS Integers, Sequences, FiniteSets, TLC

VARIABLES
    env,        \* the process environment: variable name -> value, << >> when unset
    cfgIn,      \* the *Config a caller is about to pass (pure-function specifications)
    providers,  \* Factory.registry.providers, as built by NewFactory
    reg,        \* Registry.providers of a registry built by NewRegistry
    registered, \* history: the ids Register has been called with on reg
    storages,   \* backend instance -> its fields (config, client, composer, initialized)
    nextHandler,\* next free object id (Handler allocations)
    initCalls,  \* history: instance -> number of Initialize calls made on it
    okCalls,    \* history: instance -> number of Initialize calls that returned nil
    first,      \* history: instance -> the composer first handed out after its first
                \* successful Initialize (NilComposer.id while there is none)
    last,       \* the last operation, its arguments and what it returned
    handlers,   \* the handlers the process has mounted: id -> instance and composer
    locks,      \* the upload locks held: locker, upload id, and the handler writing
    environ,    \* os.Environ() as package config sees it: a sequence of name, value
    appCfg,     \* the *Config of package config that overrides are applied to
    fileCfg,    \* history: that Config as the file gave it
    pc,         \* position of main() in cmd/server ("idle" when main is not modelled)
    store,      \* main's variable store
    tusHandler, \* main's variable tusHandler
    http,       \* the HTTP layer: "off" or "listening"
    exited,     \* << >> while the process runs, <<status>> after os.Exit(status)
    storageProvider, \* main's variable storageProvider: the provider it logs
    instance,   \* package config: the singleton *Config, 0 for nil
    once,       \* package config: the sync.Once, "fresh", "running" or "done"
    calls,      \* goroutine -> the Load or Get call it is in, and where in it
    fileOk,     \* the file system: path -> whether the file opens and decodes
    reads,      \* history: number of loadFromFile calls
    applied,    \* history: number of applyEnvironmentOverrides calls made by Load
    returns     \* history: what the Load and Get calls have returned

lockVars == <<handlers, locks>>
configVars == <<environ, appCfg, fileCfg>>
mainVars == <<pc, store, tusHandler, http, exited, storageProvider>>
loadVars == <<instance, once, calls, fileOk, reads, applied, returns>>

\* the state outside package storage's factory and backends
outside == <<lockVars, configVars, mainVars, loadVars>>

vars == <<env, cfgIn, providers, reg, registered, storages, nextHandler,
          initCalls, okCalls, first, last, outside>>

----------------------------------------------------------------------------
(* Bounds of the model *)

\* Initialize calls explored per behaviour
MaxInit == 2
\* handlers built per behaviour
MaxHandlers == 2

----------------------------------------------------------------------------
(* storage.go: providers, errors, Config *)

MinIO == "minio"
Azure == "azure"
Disk == "disk"
Memory == "memory"

ErrStorageNotConfigured == "storage not properly configured"
ErrInvalidConfig == "invalid configuration"
ErrStorageUnavailable == "storage unavailable"

NilErr == << >>

\* fmt.Errorf("<msg>: %w", err)
Wrap(msg, err) == <<msg>> \o err

\* errors.Is(err, target)
ErrorsIs(err, target) == \E i \in 1..Len(err) : err[i] = target

\* interface{} values of the property bag
StrVal(s) == [t |-> "string", s |-> s, b |-> FALSE, n |-> 0]
BoolVal(b) == [t |-> "bool", s |-> "", b |-> b, n |-> 0]
IntVal(n) == [t |-> "int", s |-> "", b |-> FALSE, n |-> n]

NoProps == [k \in {} |-> StrVal("")]

\* Config{Provider, Properties}; hasProps = FALSE is a nil Properties map
MkConfig(provider, hasProps, props) ==
    [Provider |-> provider, hasProps |-> hasProps, Properties |-> props]

NoConfig == MkConfig("", FALSE, NoProps)

\* v, ok := cfg.Properties[key].(string)
AsString(cfg, key) ==
    IF key \in DOMAIN cfg.Properties /\ cfg.Properties[key].t = "string"
    THEN [ok |-> TRUE, v |-> cfg.Properties[key].s]
    ELSE [ok |-> FALSE, v |-> ""]

\* v, ok := cfg.Properties[key].(bool)
AsBool(cfg, key) ==
    IF key \in DOMAIN cfg.Properties /\ cfg.Properties[key].t = "bool"
    THEN [ok |-> TRUE, v |-> cfg.Properties[key].b]
    ELSE [ok |-> FALSE, v |-> FALSE]

\* a type assertion that converts a boolean to its text instead of failing
StringOr_Coerce(cfg, key, dflt) ==
    IF cfg.hasProps /\ AsString(cfg, key).ok /\ AsString(cfg, key).v # ""
    THEN AsString(cfg, key).v
    ELSE IF cfg.hasProps /\ AsBool(cfg, key).ok
    THEN (IF AsBool(cfg, key).v THEN "true" ELSE "false")
    ELSE dflt

\* if v, ok := Properties[key].(string); ok && v != "" { field = v }
StringOr(cfg, key, dflt) ==
    IF cfg.hasProps /\ AsString(cfg, key).ok /\ AsString(cfg, key).v # ""
    THEN AsString(cfg, key).v ELSE dflt

\* if v, ok := Properties[key].(bool); ok { field = v }
BoolOr(cfg, key, dflt) ==
    IF cfg.hasProps /\ AsBool(cfg, key).ok THEN AsBool(cfg, key).v ELSE dflt

----------------------------------------------------------------------------
(* tusd.StoreComposer, as the backends use it *)

\* tusd.NewStoreComposer()
NewStoreComposer(id) == [id |-> id, UsesLocker |-> FALSE, UsesCore |-> FALSE]

\* memorylocker.New().UseIn(composer)
LockerUseIn(c) == [c EXCEPT !.UsesLocker = TRUE]

\* store.UseIn(composer)
StoreUseIn(c) == [c EXCEPT !.UsesCore = TRUE]

\* memorylocker.New(): one MemoryLocker is made for, and placed in, each composer
\* that Initialize builds, so a locker is identified by its composer's id.  It
\* holds at most one lock per upload id; held is the set of locks held
CanLock(held, locker, upload) ==
    ~\E l \in held : l.locker = locker /\ l.upload = upload

\* lock.Lock(ctx, requestRelease), once it has acquired the lock for a writer
Lock(held, locker, upload, writer) ==
    held \cup {[locker |-> locker, upload |-> upload, writer |-> writer]}

\* lock.Unlock()
Unlock(held, locker, upload) ==
    {l \in held : ~(l.locker = locker /\ l.upload = upload)}

\* object ids of composers: the n-th composer allocated for a backend instance
ComposerId(inst, n) == <<inst, n>>
NilComposer == NewStoreComposer(ComposerId("nil", 0))

NilHandler ==
    [id |-> 0, BasePath |-> "", composer |-> NilComposer.id,
     NotifyCompleteUploads |-> FALSE, DisableDownload |-> FALSE]

\* base paths a caller passes; the last one is no URL (url.Parse fails on it)
BasePaths == {"/files/", "/uploads/", "%zz"}
UrlParses(basePath) == basePath # "%zz"

\* tusd.NewHandler(config): validates the configuration, then builds the handler
NewHandler(id, config) ==
    IF ~UrlParses(config.BasePath)
    THEN [handler |-> NilHandler, err |-> <<"invalid URL escape">>]
    ELSE IF ~config.StoreComposer.UsesCore
    THEN [handler |-> NilHandler, err |-> <<"tusd: StoreComposer in Config needs to contain a non-nil core">>]
    ELSE [handler |-> [id |-> id, BasePath |-> config.BasePath,
                       composer |-> config.StoreComposer.id,
                       NotifyCompleteUploads |-> config.NotifyCompleteUploads,
                       DisableDownload |-> config.DisableDownload],
          err |-> NilErr]

----------------------------------------------------------------------------
(* minio.go: MinIOStorage *)

NoS3Config ==
    [Endpoint |-> "", Bucket |-> "", Region |-> "", AccessKey |-> "", SecretKey |-> "",
     UseSSL |-> FALSE, PathStyle |-> FALSE, DisableSSL |-> FALSE]

\* NewMinIOStorage(): an empty composer, initialized = false
NewMinIOStorage(obj) ==
    [kind |-> MinIO, config |-> NoS3Config, client |-> "nil",
     composer |-> NewStoreComposer(obj), initialized |-> FALSE]

\* a merge that reads the bucket from the property "region"
MergeS3Config_SwappedKeys(cfg) ==
    [Endpoint   |-> StringOr(cfg, "endpoint", "localhost:9000"),
     Bucket     |-> StringOr(cfg, "region", "uploads"),
     Region     |-> StringOr(cfg, "region", "us-east-1"),
     AccessKey  |-> StringOr(cfg, "accessKey", "minioadmin"),
     SecretKey  |-> StringOr(cfg, "secretKey", "minioadmin"),
     UseSSL     |-> BoolOr(cfg, "useSSL", FALSE),
     PathStyle  |-> BoolOr(cfg, "pathStyle", TRUE),
     DisableSSL |-> BoolOr(cfg, "disableSSL", TRUE)]

\* Initialize, lines 365-410: the defaults, overridden by the properties supplied
MergeS3Config(cfg) ==
    [Endpoint   |-> StringOr(cfg, "endpoint", "localhost:9000"),
     Bucket     |-> StringOr(cfg, "bucket", "uploads"),
     Region     |-> StringOr(cfg, "region", "us-east-1"),
     AccessKey  |-> StringOr(cfg, "accessKey", "minioadmin"),
     SecretKey  |-> StringOr(cfg, "secretKey", "minioadmin"),
     UseSSL     |-> BoolOr(cfg, "useSSL", FALSE),
     PathStyle  |-> BoolOr(cfg, "pathStyle", TRUE),
     DisableSSL |-> BoolOr(cfg, "disableSSL", TRUE)]


\* a composer assigned too early: before the bucket has been verified
MinIOInitialize_EarlyComposer(s, cfg, sdk, obj) ==
    LET s1 == [s EXCEPT !.config = MergeS3Config(cfg),
                        !.composer = StoreUseIn(LockerUseIn(NewStoreComposer(obj)))]
    IN  IF ~sdk.load
        THEN [s |-> s1, err |-> Wrap("failed to load AWS SDK config", <<"sdk error">>),
              sdk |-> <<"LoadDefaultConfig">>]
        ELSE IF ~sdk.head /\ ~sdk.create
        THEN [s |-> [s1 EXCEPT !.client = "s3.Client"],
              err |-> Wrap("error creating bucket", <<"sdk error">>),
              sdk |-> <<"LoadDefaultConfig", "HeadBucket", "CreateBucket">>]
        ELSE [s |-> [s1 EXCEPT !.client = "s3.Client", !.initialized = TRUE],
              err |-> NilErr,
              sdk |-> <<"LoadDefaultConfig", "HeadBucket">>
                      \o (IF sdk.head THEN << >> ELSE <<"CreateBucket">>)]

\* an Initialize that goes on when CreateBucket has failed
MinIOInitialize_IgnoreCreateError(s, cfg, sdk, obj) ==
    LET s1 == [s EXCEPT !.config = MergeS3Config(cfg)]
    IN  IF ~sdk.load
        THEN [s |-> s1, err |-> Wrap("failed to load AWS SDK config", <<"sdk error">>),
              sdk |-> <<"LoadDefaultConfig">>]
        ELSE [s |-> [s1 EXCEPT
                       !.client = "s3.Client",
                       !.composer = StoreUseIn(LockerUseIn(NewStoreComposer(obj))),
                       !.initialized = TRUE],
              err |-> NilErr,
              sdk |-> <<"LoadDefaultConfig", "HeadBucket">>
                      \o (IF sdk.head THEN << >> ELSE <<"CreateBucket">>)]

\* (s *MinIOStorage) Initialize(ctx, cfg): the new fields of s, the error returned
\* and the SDK calls made, given the SDK's answers and the id of the composer
\* that NewStoreComposer would allocate
MinIOInitialize(s, cfg, sdk, obj) ==
    LET s1 == [s EXCEPT !.config = MergeS3Config(cfg)]      \* s.config = s3Cfg
    IN  IF ~sdk.load
        THEN [s |-> s1, err |-> Wrap("failed to load AWS SDK config", <<"sdk error">>),
              sdk |-> <<"LoadDefaultConfig">>]
        ELSE LET s2 == [s1 EXCEPT !.client = "s3.Client"]   \* s.s3Client = s3Client
             IN  IF ~sdk.head /\ ~sdk.create
                 THEN [s |-> s2, err |-> Wrap("error creating bucket", <<"sdk error">>),
                       sdk |-> <<"LoadDefaultConfig", "HeadBucket", "CreateBucket">>]
                 ELSE [s |-> [s2 EXCEPT
                                !.composer = StoreUseIn(LockerUseIn(NewStoreComposer(obj))),
                                !.initialized = TRUE],
                       err |-> NilErr,
                       sdk |-> <<"LoadDefaultConfig", "HeadBucket">>
                               \o (IF sdk.head THEN << >> ELSE <<"CreateBucket">>)]

\* Initialize, lines 421-431: the URL of the service, for an endpoint given as
\* its characters.  The condition is
\*   len(minioURL) < 4 || (minioURL[:4] != "http" && minioURL[:5] != "https")
\* and minioURL[:5] is evaluated when the endpoint has four characters or more
\* and does not start with "http": on a string of four characters that slice
\* expression panics (slice bounds out of range)
minioURL(endpoint, useSSL) ==
    LET protocol == IF useSSL THEN <<"h", "t", "t", "p", "s">>
                              ELSE <<"h", "t", "t", "p">>
        full == protocol \o <<":", "/", "/">> \o endpoint
    IN  IF Len(endpoint) < 4 THEN [panic |-> FALSE, url |-> full]
        ELSE IF SubSeq(endpoint, 1, 4) = <<"h", "t", "t", "p">>
        THEN [panic |-> FALSE, url |-> endpoint]
        ELSE IF Len(endpoint) < 5 THEN [panic |-> TRUE, url |-> << >>]
        ELSE IF SubSeq(endpoint, 1, 5) # <<"h", "t", "t", "p", "s">>
        THEN [panic |-> FALSE, url |-> full]
        ELSE [panic |-> FALSE, url |-> endpoint]

\* slog.Info(msg, args...) and slog.Debug(msg, args...): the record emitted
LogRecord(level, msg, attrs) == [level |-> level, msg |-> msg, attrs |-> attrs]

\* an Initialize whose summary also shows the credentials
MinIOInitializeLog_WithKeys(cfg, sdk) ==
    LET s3Cfg == MergeS3Config(cfg)
    IN  <<LogRecord("INFO", "Setting up S3-compatible storage",
                    <<<<"endpoint", StrVal(s3Cfg.Endpoint)>>,
                      <<"bucket", StrVal(s3Cfg.Bucket)>>,
                      <<"accessKey", StrVal(s3Cfg.AccessKey)>>,
                      <<"secretKey", StrVal(s3Cfg.SecretKey)>>>>)>>

\* the log records MinIOStorage.Initialize emits (lines 415-419, 470, 477, 494),
\* given the SDK's answers
MinIOInitializeLog(cfg, sdk) ==
    LET s3Cfg == MergeS3Config(cfg)
        bucket == <<<<"bucket", StrVal(s3Cfg.Bucket)>>>>
    IN  <<LogRecord("INFO", "Setting up S3-compatible storage",
                    <<<<"endpoint", StrVal(s3Cfg.Endpoint)>>,
                      <<"bucket", StrVal(s3Cfg.Bucket)>>,
                      <<"region", StrVal(s3Cfg.Region)>>,
                      <<"useSSL", BoolVal(s3Cfg.UseSSL)>>>>)>>
        \o (IF sdk.load /\ ~sdk.head
            THEN <<LogRecord("INFO", "Bucket does not exist. Creating...", bucket)>>
            ELSE << >>)
        \o (IF sdk.load /\ ~sdk.head /\ sdk.create
            THEN <<LogRecord("INFO", "Bucket created successfully", bucket)>>
            ELSE << >>)
        \o (IF sdk.load /\ (sdk.head \/ sdk.create)
            THEN <<LogRecord("DEBUG", "S3 store configured",
                             <<<<"provider", StrVal("MinIO")>>>> \o bucket)>>
            ELSE << >>)

----------------------------------------------------------------------------
(* azure.go: AzureStorage *)

NoAzureConfig ==
    [AccountName |-> "", AccountKey |-> "", ContainerName |-> "", Endpoint |-> "",
     BlobAccessTier |-> "", ContainerAccessType |-> ""]

\* NewAzureStorage(): an empty composer, initialized = false
NewAzureStorage(obj) ==
    [kind |-> Azure, config |-> NoAzureConfig, client |-> "nil",
     composer |-> NewStoreComposer(obj), initialized |-> FALSE]

\* Initialize, lines 41-72: the defaults, overridden by the properties supplied
MergeAzureConfig(cfg) ==
    [AccountName         |-> StringOr(cfg, "accountName", ""),
     AccountKey          |-> StringOr(cfg, "accountKey", ""),
     ContainerName       |-> StringOr(cfg, "containerName", "uploads"),
     Endpoint            |-> StringOr(cfg, "endpoint", ""),
     BlobAccessTier      |-> StringOr(cfg, "blobAccessTier", ""),
     ContainerAccessType |-> StringOr(cfg, "containerAccessType", "private")]


\* an Initialize that validates the account name only
AzureInitialize_NoKeyCheck(s, cfg, sdk, obj) ==
    LET azureCfg == MergeAzureConfig(cfg)
    IN  IF azureCfg.AccountName = ""
        THEN [s |-> s, err |-> Wrap("azure account name is required", <<ErrInvalidConfig>>),
              sdk |-> << >>]
        ELSE IF ~sdk.service
        THEN [s |-> [s EXCEPT !.config = azureCfg],
              err |-> Wrap("error creating Azure service", <<"sdk error">>),
              sdk |-> <<"NewAzureService">>]
        ELSE [s |-> [s EXCEPT !.config = azureCfg,
                              !.composer = StoreUseIn(LockerUseIn(NewStoreComposer(obj))),
                              !.client = "azurestore.AzService",
                              !.initialized = TRUE],
              err |-> NilErr, sdk |-> <<"NewAzureService">>]

\* (s *AzureStorage) Initialize(ctx, cfg)
AzureInitialize(s, cfg, sdk, obj) ==
    LET azureCfg == MergeAzureConfig(cfg)
    IN  IF azureCfg.AccountName = ""
        THEN [s |-> s, err |-> Wrap("azure account name is required", <<ErrInvalidConfig>>),
              sdk |-> << >>]
        ELSE IF azureCfg.AccountKey = ""
        THEN [s |-> s, err |-> Wrap("azure account key is required", <<ErrInvalidConfig>>),
              sdk |-> << >>]
        ELSE LET s1 == [s EXCEPT !.config = azureCfg]       \* s.config = azureCfg
             IN  IF ~sdk.service
                 THEN [s |-> s1, err |-> Wrap("error creating Azure service", <<"sdk error">>),
                       sdk |-> <<"NewAzureService">>]
                 ELSE [s |-> [s1 EXCEPT
                                !.composer = StoreUseIn(LockerUseIn(NewStoreComposer(obj))),
                                !.client = "azurestore.AzService",
                                !.initialized = TRUE],
                       err |-> NilErr, sdk |-> <<"NewAzureService">>]

\* the log records AzureStorage.Initialize emits (lines 96-106, 128-130), given
\* the SDK's answer
AzureInitializeLog(cfg, sdk) ==
    LET azureCfg == MergeAzureConfig(cfg)
    IN  IF azureCfg.AccountName = "" \/ azureCfg.AccountKey = "" THEN << >>
        ELSE (IF azureCfg.Endpoint # ""
              THEN <<LogRecord("INFO", "Using custom Azure endpoint",
                               <<<<"endpoint", StrVal(azureCfg.Endpoint)>>>>)>>
              ELSE << >>)
             \o <<LogRecord("INFO", "Setting up Azure Blob Storage",
                            <<<<"account", StrVal(azureCfg.AccountName)>>,
                              <<"container", StrVal(azureCfg.ContainerName)>>,
                              <<"customEndpoint", BoolVal(azureCfg.Endpoint # "")>>>>)>>
             \o (IF sdk.service
                 THEN <<LogRecord("DEBUG", "Azure store configured",
                                  <<<<"provider", StrVal("Azure")>>,
                                    <<"container", StrVal(azureCfg.ContainerName)>>>>)>>
                 ELSE << >>)

----------------------------------------------------------------------------
(* The Storage interface: dynamic dispatch on the instance's type *)

\* the log records of storage.Initialize(ctx, cfg)
InitializeLog(s, cfg, sdk) ==
    IF s.kind = MinIO THEN MinIOInitializeLog(cfg, sdk) ELSE AzureInitializeLog(cfg, sdk)

\* storage.Initialize(ctx, cfg)
Initialize(s, cfg, sdk, obj) ==
    IF s.kind = MinIO THEN MinIOInitialize(s, cfg, sdk, obj)
                      ELSE AzureInitialize(s, cfg, sdk, obj)

\* a GetHandler that does not look at the initialized flag
GetHandler_NoCheck(s, basePath, id) ==
    LET r == NewHandler(id, [BasePath |-> basePath, StoreComposer |-> s.composer,
                             NotifyCompleteUploads |-> TRUE, DisableDownload |-> FALSE])
    IN  IF r.err # NilErr
        THEN [handler |-> NilHandler, err |-> Wrap("error creating handler", r.err)]
        ELSE [handler |-> r.handler, err |-> NilErr]

\* a GetHandler that keeps the first handler it built and returns it again
GetHandler_Cached(s, basePath, id) ==
    IF ~s.initialized
    THEN [handler |-> NilHandler, err |-> <<ErrStorageNotConfigured>>]
    ELSE LET r == NewHandler(1, [BasePath |-> basePath, StoreComposer |-> s.composer,
                                 NotifyCompleteUploads |-> TRUE,
                                 DisableDownload |-> FALSE])
         IN  IF r.err # NilErr
             THEN [handler |-> NilHandler, err |-> Wrap("error creating handler", r.err)]
             ELSE [handler |-> r.handler, err |-> NilErr]

\* (s *MinIOStorage) GetHandler(basePath), (s *AzureStorage) GetHandler(basePath):
\* the two methods have the same body
GetHandler(s, basePath, id) ==
    IF ~s.initialized
    THEN [handler |-> NilHandler, err |-> <<ErrStorageNotConfigured>>]
    ELSE LET r == NewHandler(id, [BasePath |-> basePath, StoreComposer |-> s.composer,
                                  NotifyCompleteUploads |-> TRUE,
                                  DisableDownload |-> FALSE])
         IN  IF r.err # NilErr
             THEN [handler |-> NilHandler, err |-> Wrap("error creating handler", r.err)]
             ELSE [handler |-> r.handler, err |-> NilErr]

\* a GetProvider that answers only once the backend is initialized
GetProvider_WhenInitialized(s) ==
    IF ~s.initialized THEN "" ELSE IF s.kind = MinIO THEN MinIO ELSE Azure

\* GetProvider()
GetProvider(s) == IF s.kind = MinIO THEN MinIO ELSE Azure

\* GetStoreComposer()
GetStoreComposer(s) == s.composer

----------------------------------------------------------------------------
(* storage.go: Registry *)

\* the two backend objects NewFactory constructs, and the nil Storage
MinIOInst == "MinIOStorage#1"
AzureInst == "AzureStorage#1"
Instances == {MinIOInst, AzureInst}
NilStorage == "nil"

\* NewRegistry(): an empty providers map
NewRegistry == [p \in {} |-> NilStorage]

\* a Register that keeps the implementation registered first
Register_KeepFirst(r, provider, storage) ==
    [p \in DOMAIN r \cup {provider} |-> IF p \in DOMAIN r THEN r[p] ELSE storage]

\* (r *Registry) Register(provider, storage): r.providers[provider] = storage
Register(r, provider, storage) ==
    [p \in DOMAIN r \cup {provider} |-> IF p = provider THEN storage ELSE r[p]]

\* a Get that falls back to the default backend for an unknown provider
RegistryGet_Fallback(r, provider) ==
    IF provider \in DOMAIN r
    THEN [storage |-> r[provider], err |-> NilErr]
    ELSE IF MinIO \in DOMAIN r
    THEN [storage |-> r[MinIO], err |-> NilErr]
    ELSE [storage |-> NilStorage, err |-> <<"storage provider not found">>]

\* (r *Registry) Get(provider)
RegistryGet(r, provider) ==
    IF provider \in DOMAIN r
    THEN [storage |-> r[provider], err |-> NilErr]
    ELSE [storage |-> NilStorage, err |-> <<"storage provider not found">>]

\* a resolve-and-initialize path that formats the cause with %v instead of %w
NewStorageFromConfig_NoWrap(r, cfg, sts, sdk, fresh) ==
    LET g == RegistryGet(r, cfg.Provider)
    IN  IF g.err # NilErr
        THEN [storage |-> NilStorage, err |-> g.err, trace |-> <<"Get">>,
              inst |-> NilStorage, sts |-> sts, getErr |-> g.err, initErr |-> NilErr,
              sdk |-> << >>, cfg |-> NoConfig]
        ELSE LET i == Initialize(sts[g.storage], cfg, sdk, fresh[g.storage])
             IN  [storage |-> IF i.err # NilErr THEN NilStorage ELSE g.storage,
                  err |-> IF i.err # NilErr THEN <<"failed to initialize storage">>
                                            ELSE NilErr,
                  trace |-> <<"Get", "Initialize">>, inst |-> g.storage,
                  sts |-> [sts EXCEPT ![g.storage] = i.s],
                  getErr |-> NilErr, initErr |-> i.err, sdk |-> i.sdk, cfg |-> cfg]

\* (r *Registry) NewStorageFromConfig(ctx, cfg), on the backends sts: what it
\* returns (storage, err), the calls it made (trace), the instance it called
\* Initialize on, and the backends afterwards; fresh[i] is the id of the
\* composer a NewStoreComposer() in Initialize of instance i would allocate
NewStorageFromConfig(r, cfg, sts, sdk, fresh) ==
    LET g == RegistryGet(r, cfg.Provider)
    IN  IF g.err # NilErr
        THEN [storage |-> NilStorage, err |-> g.err, trace |-> <<"Get">>,
              inst |-> NilStorage, sts |-> sts, getErr |-> g.err, initErr |-> NilErr,
              sdk |-> << >>, cfg |-> NoConfig]
        ELSE LET i == Initialize(sts[g.storage], cfg, sdk, fresh[g.storage])
             IN  [storage |-> IF i.err # NilErr THEN NilStorage ELSE g.storage,
                  err |-> IF i.err # NilErr
                          THEN Wrap("failed to initialize storage", i.err) ELSE NilErr,
                  trace |-> <<"Get", "Initialize">>, inst |-> g.storage,
                  sts |-> [sts EXCEPT ![g.storage] = i.s],
                  getErr |-> NilErr, initErr |-> i.err, sdk |-> i.sdk, cfg |-> cfg]

----------------------------------------------------------------------------
(* factory.go: the environment, Factory *)

Uppers ==
    <<"A", "B", "C", "D", "E", "F", "G", "H", "I", "J", "K", "L", "M",
      "N", "O", "P", "Q", "R", "S", "T", "U", "V", "W", "X", "Y", "Z">>
Lowers ==
    <<"a", "b", "c", "d", "e", "f", "g", "h", "i", "j", "k", "l", "m",
      "n", "o", "p", "q", "r", "s", "t", "u", "v", "w", "x", "y", "z">>

LowerChar(c) ==
    IF \E i \in DOMAIN Uppers : Uppers[i] = c
    THEN Lowers[CHOOSE i \in DOMAIN Uppers : Uppers[i] = c] ELSE c

\* strings.ToLower(s)
ToLower(s) == [i \in 1..Len(s) |-> LowerChar(s[i])]

\* the Go string whose characters are s
RECURSIVE Join(_)
Join(s) == IF s = << >> THEN "" ELSE Head(s) \o Join(Tail(s))

EnvVars ==
    {"STORAGE_TYPE", "MINIO_ENDPOINT", "MINIO_BUCKET", "MINIO_REGION",
     "MINIO_ACCESS_KEY", "MINIO_SECRET_KEY", "MINIO_USE_SSL",
     "AZURE_STORAGE_ACCOUNT", "AZURE_STORAGE_KEY", "AZURE_STORAGE_CONTAINER",
     "AZURE_STORAGE_ENDPOINT", "AZURE_BLOB_ACCESS_TIER", "AZURE_CONTAINER_ACCESS_TYPE"}

\* os.Getenv(key): "" for a variable that is unset (or set to the empty string)
Getenv(e, key) == e[key]

\* getEnv(key, defaultValue)
getEnv(e, key, defaultValue) ==
    IF Getenv(e, key) = << >> THEN defaultValue ELSE Join(Getenv(e, key))

\* getEnvBool(key, defaultValue)
getEnvBool(e, key, defaultValue) ==
    IF Getenv(e, key) = << >> THEN defaultValue
    ELSE \/ ToLower(Getenv(e, key)) = <<"t", "r", "u", "e">>
         \/ ToLower(Getenv(e, key)) = <<"y", "e", "s">>
         \/ ToLower(Getenv(e, key)) = <<"1">>
         \/ ToLower(Getenv(e, key)) = <<"o", "n">>

\* NewFactory(): a registry holding one MinIOStorage and one AzureStorage
NewFactory == Register(Register(NewRegistry, MinIO, MinIOInst), Azure, AzureInst)

\* CreateFromEnv, lines 106-113: case MinIO
MinIOEnvProperties(e) ==
    [k \in {"endpoint", "bucket", "region", "accessKey", "secretKey", "useSSL",
            "pathStyle", "disableSSL"} |->
        CASE k = "endpoint"   -> StrVal(getEnv(e, "MINIO_ENDPOINT", "localhost:9000"))
          [] k = "bucket"     -> StrVal(getEnv(e, "MINIO_BUCKET", "uploads"))
          [] k = "region"     -> StrVal(getEnv(e, "MINIO_REGION", "us-east-1"))
          [] k = "accessKey"  -> StrVal(getEnv(e, "MINIO_ACCESS_KEY", "minioadmin"))
          [] k = "secretKey"  -> StrVal(getEnv(e, "MINIO_SECRET_KEY", "minioadmin"))
          [] k = "useSSL"     -> BoolVal(getEnvBool(e, "MINIO_USE_SSL", FALSE))
          [] k = "pathStyle"  -> BoolVal(TRUE)
          [] k = "disableSSL" -> BoolVal(~getEnvBool(e, "MINIO_USE_SSL", FALSE))]

\* an Azure case that reads the account key from the container's variable
AzureEnvProperties_WrongKey(e) ==
    [k \in {"accountName", "accountKey", "containerName", "endpoint",
            "blobAccessTier", "containerAccessType"} |->
        CASE k = "accountName"    -> StrVal(getEnv(e, "AZURE_STORAGE_ACCOUNT", ""))
          [] k = "accountKey"     -> StrVal(getEnv(e, "AZURE_STORAGE_ENDPOINT", ""))
          [] k = "containerName"  -> StrVal(getEnv(e, "AZURE_STORAGE_CONTAINER", "uploads"))
          [] k = "endpoint"       -> StrVal(getEnv(e, "AZURE_STORAGE_ENDPOINT", ""))
          [] k = "blobAccessTier" -> StrVal(getEnv(e, "AZURE_BLOB_ACCESS_TIER", ""))
          [] k = "containerAccessType" ->
                 StrVal(getEnv(e, "AZURE_CONTAINER_ACCESS_TYPE", "private"))]

\* CreateFromEnv, lines 116-121: case Azure
AzureEnvProperties(e) ==
    [k \in {"accountName", "accountKey", "containerName", "endpoint",
            "blobAccessTier", "containerAccessType"} |->
        CASE k = "accountName"    -> StrVal(getEnv(e, "AZURE_STORAGE_ACCOUNT", ""))
          [] k = "accountKey"     -> StrVal(getEnv(e, "AZURE_STORAGE_KEY", ""))
          [] k = "containerName"  -> StrVal(getEnv(e, "AZURE_STORAGE_CONTAINER", "uploads"))
          [] k = "endpoint"       -> StrVal(getEnv(e, "AZURE_STORAGE_ENDPOINT", ""))
          [] k = "blobAccessTier" -> StrVal(getEnv(e, "AZURE_BLOB_ACCESS_TIER", ""))
          [] k = "containerAccessType" ->
                 StrVal(getEnv(e, "AZURE_CONTAINER_ACCESS_TYPE", "private"))]

\* a provider selector compared as it was read, without strings.ToLower
EnvProvider_NoLower(e) ==
    IF Getenv(e, "STORAGE_TYPE") = << >> THEN MinIO ELSE Join(Getenv(e, "STORAGE_TYPE"))

\* CreateFromEnv, lines 90-95: the provider the environment selects
EnvProvider(e) ==
    IF Getenv(e, "STORAGE_TYPE") = << >> THEN MinIO
    ELSE Join(ToLower(Getenv(e, "STORAGE_TYPE")))

\* a MinIO case that reads the bucket from the endpoint's variable
EnvConfig_SwappedKeys(e) ==
    LET provider == EnvProvider(e)
    IN  IF provider = MinIO
        THEN MkConfig(provider, TRUE,
                      [MinIOEnvProperties(e) EXCEPT
                          !["bucket"] = StrVal(getEnv(e, "MINIO_ENDPOINT", "uploads"))])
        ELSE IF provider = Azure THEN MkConfig(provider, TRUE, AzureEnvProperties(e))
        ELSE MkConfig(provider, TRUE, NoProps)

\* CreateFromEnv, lines 98-125: the Config built for the selected provider
EnvConfig(e) ==
    LET provider == EnvProvider(e)
    IN  IF provider = MinIO THEN MkConfig(provider, TRUE, MinIOEnvProperties(e))
        ELSE IF provider = Azure THEN MkConfig(provider, TRUE, AzureEnvProperties(e))
        ELSE MkConfig(provider, TRUE, NoProps)

\* (f *Factory) CreateFromEnv(ctx)
CreateFromEnv(r, e, sts, sdk, fresh) ==
    LET cfg == EnvConfig(e)
    IN  IF cfg.Provider \notin {MinIO, Azure}
        THEN [storage |-> NilStorage, err |-> <<"unsupported storage provider">>,
              trace |-> << >>, inst |-> NilStorage, sts |-> sts,
              getErr |-> NilErr, initErr |-> NilErr, sdk |-> << >>, cfg |-> NoConfig]
        ELSE NewStorageFromConfig(r, cfg, sts, sdk, fresh)

\* (f *Factory) CreateFromConfig(ctx, cfg)
CreateFromConfig(r, cfg, sts, sdk, fresh) ==
    NewStorageFromConfig(r, cfg, sts, sdk, fresh)

----------------------------------------------------------------------------
(* package config: Config and the environment overrides *)

EnvPrefix == <<"A", "P", "P", "_">>

\* the fields of Config that the overrides and main() read
NoAppConfig ==
    [App |-> [Name |-> "", Environment |-> "", Port |-> 0, Debug |-> FALSE],
     Storage |->
        [Type |-> "",
         Local |-> [RootDir |-> "", TempDir |-> ""],
         S3 |-> [Region |-> "", Bucket |-> "", AccessKey |-> "", SecretKey |-> "",
                 Endpoint |-> ""],
         Azure |-> [AccountName |-> "", AccountKey |-> "", ContainerName |-> ""],
         Minio |-> [Endpoint |-> "", AccessKey |-> "", SecretKey |-> "", SSL |-> FALSE,
                    Bucket |-> ""]],
     Logging |-> [Level |-> ""]]

\* strings.HasPrefix(s, prefix)
HasPrefix(s, prefix) ==
    Len(s) >= Len(prefix) /\ SubSeq(s, 1, Len(prefix)) = prefix

\* strings.TrimPrefix(s, prefix)
TrimPrefix(s, prefix) ==
    IF HasPrefix(s, prefix) THEN SubSeq(s, Len(prefix) + 1, Len(s)) ELSE s

\* strings.SplitN(s, "=", 2): the text before and after the first "="
SplitN2(s) ==
    IF \E i \in 1..Len(s) : s[i] = "="
    THEN LET i == CHOOSE i \in 1..Len(s) :
                     s[i] = "=" /\ \A j \in 1..(i - 1) : s[j] # "="
         IN  <<SubSeq(s, 1, i - 1), SubSeq(s, i + 1, Len(s))>>
    ELSE <<s>>

Digits == <<"0", "1", "2", "3", "4", "5", "6", "7", "8", "9">>
IsDigit(c) == \E i \in DOMAIN Digits : Digits[i] = c
DigitValue(c) == (CHOOSE i \in DOMAIN Digits : Digits[i] = c) - 1

RECURSIVE Decimal(_)
Decimal(s) ==
    IF s = << >> THEN 0
    ELSE Decimal(SubSeq(s, 1, Len(s) - 1)) * 10 + DigitValue(s[Len(s)])

\* fmt.Sscanf(value, "%d", &port), for a value without blanks, sign or "_": the
\* digits the value starts with are read; with none the scan fails
Sscanf(value) ==
    LET n == CHOOSE n \in 0..Len(value) :
                 /\ \A i \in 1..n : IsDigit(value[i])
                 /\ n < Len(value) => ~IsDigit(value[n + 1])
    IN  IF n = 0 THEN [ok |-> FALSE, port |-> 0]
        ELSE [ok |-> TRUE, port |-> Decimal(SubSeq(value, 1, n))]

\* applyEnvOverride(cfg, key, value)
applyEnvOverride(cfg, key, value) ==
    LET k == Join(ToLower(key))
        v == Join(value)
    IN  CASE k = "app_port" ->
                 IF Sscanf(value).ok THEN [cfg EXCEPT !.App.Port = Sscanf(value).port]
                 ELSE cfg
          [] k = "app_debug" ->
                 [cfg EXCEPT !.App.Debug = (ToLower(value) = <<"t", "r", "u", "e">>)]
          [] k = "app_environment" -> [cfg EXCEPT !.App.Environment = v]
          [] k = "storage_type" -> [cfg EXCEPT !.Storage.Type = v]
          [] k = "s3_accesskey" -> [cfg EXCEPT !.Storage.S3.AccessKey = v]
          [] k = "s3_secretkey" -> [cfg EXCEPT !.Storage.S3.SecretKey = v]
          [] k = "s3_bucket" -> [cfg EXCEPT !.Storage.S3.Bucket = v]
          [] k = "s3_region" -> [cfg EXCEPT !.Storage.S3.Region = v]
          [] k = "azure_accountkey" -> [cfg EXCEPT !.Storage.Azure.AccountKey = v]
          [] k = "azure_accountname" -> [cfg EXCEPT !.Storage.Azure.AccountName = v]
          [] k = "azure_containername" -> [cfg EXCEPT !.Storage.Azure.ContainerName = v]
          [] k = "minio_accesskey" -> [cfg EXCEPT !.Storage.Minio.AccessKey = v]
          [] k = "minio_secretkey" -> [cfg EXCEPT !.Storage.Minio.SecretKey = v]
          [] k = "minio_bucket" -> [cfg EXCEPT !.Storage.Minio.Bucket = v]
          [] k = "logging_level" -> [cfg EXCEPT !.Logging.Level = v]
          [] OTHER -> cfg

\* applyEnvironmentOverrides(cfg), over the entries of os.Environ() in their order
RECURSIVE applyEnvironmentOverrides(_, _)
applyEnvironmentOverrides(cfg, entries) ==
    IF entries = << >> THEN cfg
    ELSE LET e == Head(entries)
             parts == SplitN2(e)
         IN  IF ~HasPrefix(e, EnvPrefix) \/ Len(parts) # 2
             THEN applyEnvironmentOverrides(cfg, Tail(entries))
             ELSE applyEnvironmentOverrides(
                      applyEnvOverride(cfg, TrimPrefix(parts[1], EnvPrefix), parts[2]),
                      Tail(entries))

\* a Validate that asks a minio configuration for its bucket only
Validate_MinioBucketOnly(c, mkdir) ==
    IF c.App.Port <= 0 THEN <<"invalid port">>
    ELSE CASE c.Storage.Type = "local" ->
                 IF c.Storage.Local.RootDir = ""
                 THEN <<"local storage requires rootDir to be set">>
                 ELSE IF ~mkdir.rootDir
                 THEN Wrap("failed to create rootDir", <<"mkdir error">>)
                 ELSE IF c.Storage.Local.TempDir # "" /\ ~mkdir.tempDir
                 THEN Wrap("failed to create tempDir", <<"mkdir error">>)
                 ELSE NilErr
           [] c.Storage.Type = "s3" ->
                 IF c.Storage.S3.Bucket = ""
                 THEN <<"s3 storage requires bucket to be set">> ELSE NilErr
           [] c.Storage.Type = "azure" ->
                 IF c.Storage.Azure.ContainerName = ""
                 THEN <<"azure storage requires containerName to be set">> ELSE NilErr
           [] c.Storage.Type = "minio" ->
                 IF c.Storage.Minio.Bucket = ""
                 THEN <<"minio storage requires endpoint and bucket to be set">>
                 ELSE NilErr
           [] OTHER -> <<"unsupported storage type">>

\* (c *Config) Validate(): the error returned; mkdir.rootDir and mkdir.tempDir tell
\* whether os.MkdirAll succeeds on the directory
Validate(c, mkdir) ==
    IF c.App.Port <= 0 THEN <<"invalid port">>
    ELSE CASE c.Storage.Type = "local" ->
                 IF c.Storage.Local.RootDir = ""
                 THEN <<"local storage requires rootDir to be set">>
                 ELSE IF ~mkdir.rootDir
                 THEN Wrap("failed to create rootDir", <<"mkdir error">>)
                 ELSE IF c.Storage.Local.TempDir # "" /\ ~mkdir.tempDir
                 THEN Wrap("failed to create tempDir", <<"mkdir error">>)
                 ELSE NilErr
           [] c.Storage.Type = "s3" ->
                 IF c.Storage.S3.Bucket = ""
                 THEN <<"s3 storage requires bucket to be set">> ELSE NilErr
           [] c.Storage.Type = "azure" ->
                 IF c.Storage.Azure.ContainerName = ""
                 THEN <<"azure storage requires containerName to be set">> ELSE NilErr
           [] c.Storage.Type = "minio" ->
                 IF c.Storage.Minio.Endpoint = "" \/ c.Storage.Minio.Bucket = ""
                 THEN <<"minio storage requires endpoint and bucket to be set">>
                 ELSE NilErr
           [] OTHER -> <<"unsupported storage type">>

DefaultConfigPath == "config.yml"

\* a Once whose Do runs the function on every call
OnceDo_Always(o) == "run"

\* once.Do(f), by the state of the Once: the first caller runs f, a caller that
\* arrives while f runs waits for it to return, a later caller skips f
OnceDo(o) ==
    IF o = "fresh" THEN "run" ELSE IF o = "running" THEN "wait" ELSE "skip"

\* a read of the package variable instance by a goroutine: Load reads it after
\* once.Do, which orders the read after the write made inside Do; Get reads it
\* with no synchronisation, so before the goroutine has passed once.Do its read
\* races with that write and yields the old nil or the value written
ReadInstance(inst, synced) == IF synced THEN {inst} ELSE {0, inst}

----------------------------------------------------------------------------
(* package auth: the authentication middleware *)

\* strings.Split(s, " ")
RECURSIVE Split(_)
Split(s) ==
    IF \E i \in 1..Len(s) : s[i] = " "
    THEN LET i == CHOOSE i \in 1..Len(s) :
                     s[i] = " " /\ \A j \in 1..(i - 1) : s[j] # " "
         IN  <<SubSeq(s, 1, i - 1)>> \o Split(SubSeq(s, i + 1, Len(s)))
    ELSE <<s>>

Bearer == <<"B", "e", "a", "r", "e", "r">>

\* an extractToken that takes the second part whatever the first part is
extractToken_AnyScheme(authHeader) ==
    IF authHeader = << >>
    THEN [token |-> << >>, err |-> <<"authorization header is missing">>]
    ELSE IF Len(Split(authHeader)) # 2
    THEN [token |-> << >>, err |-> <<"invalid authorization header format">>]
    ELSE [token |-> Split(authHeader)[2], err |-> NilErr]

\* extractToken(r), by the value of the request's Authorization header (<< >>
\* when the header is absent)
extractToken(authHeader) ==
    IF authHeader = << >>
    THEN [token |-> << >>, err |-> <<"authorization header is missing">>]
    ELSE IF Len(Split(authHeader)) # 2 \/ Split(authHeader)[1] # Bearer
    THEN [token |-> << >>, err |-> <<"invalid authorization header format">>]
    ELSE [token |-> Split(authHeader)[2], err |-> NilErr]

NilUser == [ID |-> "", Username |-> "", Role |-> ""]

\* the TokenVerifier implementations: JWTVerifier, which rejects the empty token
\* only and answers with its mock user, and verifiers behind the interface that
\* accept one token, every token, or none
Verifiers == {"JWTVerifier", "accepts-abc", "accepts-all", "accepts-none"}

\* verifier.VerifyToken(token)
VerifyToken(verifier, token) ==
    CASE verifier = "JWTVerifier" ->
             IF token = << >> THEN [user |-> NilUser, err |-> <<"invalid token">>]
             ELSE [user |-> [ID |-> "user-123", Username |-> "testuser", Role |-> "user"],
                   err |-> NilErr]
      [] verifier = "accepts-abc" ->
             IF token = <<"a", "b", "c">>
             THEN [user |-> [ID |-> "user-1", Username |-> "abc", Role |-> "admin"],
                   err |-> NilErr]
             ELSE [user |-> NilUser, err |-> <<"invalid token">>]
      [] verifier = "accepts-all" ->
             [user |-> [ID |-> "user-2", Username |-> Join(token), Role |-> "user"],
              err |-> NilErr]
      [] OTHER -> [user |-> NilUser, err |-> <<"invalid token">>]

\* the handler Authenticate(next) returns, serving one request: the status the
\* middleware writes (0 when it writes none), whether next.ServeHTTP is called,
\* and the user under UserKey{} in the context of the request passed to next
Authenticate(verifier, authHeader) ==
    LET t == extractToken(authHeader)
        v == VerifyToken(verifier, t.token)
    IN  IF t.err # NilErr
        THEN [status |-> 401, body |-> "Unauthorized", next |-> FALSE, user |-> NilUser]
        ELSE IF v.err # NilErr
        THEN [status |-> 401, body |-> "Unauthorized", next |-> FALSE, user |-> NilUser]
        ELSE [status |-> 0, body |-> "", next |-> TRUE, user |-> v.user]

----------------------------------------------------------------------------
(* The inputs explored *)

EnvUnset == [v \in EnvVars |-> << >>]

\* values of STORAGE_TYPE: unset, letter-case variants of the two registered
\* providers, the two declared but unregistered providers, and other strings
MinIOSelectors ==
    {<< >>, <<"m", "i", "n", "i", "o">>, <<"M", "I", "N", "I", "O">>,
     <<"M", "i", "n", "I", "O">>}
AzureSelectors ==
    {<<"a", "z", "u", "r", "e">>, <<"A", "Z", "U", "R", "E">>, <<"A", "z", "u", "r", "e">>}
OtherSelectors ==
    {<<"d", "i", "s", "k">>, <<"D", "i", "s", "k">>, <<"m", "e", "m", "o", "r", "y">>,
     <<"s", "3">>, <<"m", "i", "n", "i", "o", " ">>, <<"a", "z", "u", "r">>}

\* values of MINIO_USE_SSL
BoolTexts ==
    {<< >>, <<"t", "r", "u", "e">>, <<"T", "R", "U", "E">>, <<"T", "r", "u", "e">>,
     <<"y", "e", "s">>, <<"1">>, <<"o", "n">>, <<"O", "N">>,
     <<"f", "a", "l", "s", "e">>, <<"0">>, <<"n", "o">>, <<"t">>}

\* every combination of set and unset MINIO_* variables, under the selectors of MinIO
MinIOEnvs ==
    {[EnvUnset EXCEPT !["STORAGE_TYPE"] = st, !["MINIO_ENDPOINT"] = ep,
                      !["MINIO_BUCKET"] = bk, !["MINIO_REGION"] = rg,
                      !["MINIO_ACCESS_KEY"] = ak, !["MINIO_SECRET_KEY"] = sk,
                      !["MINIO_USE_SSL"] = ssl] :
        st \in MinIOSelectors,
        ep \in {<< >>, <<"s", "3", ":", "8", "0">>},
        bk \in {<< >>, <<"m", "e", "d", "i", "a">>},
        rg \in {<< >>, <<"e", "u">>},
        ak \in {<< >>, <<"a", "k">>},
        sk \in {<< >>, <<"s", "k">>},
        ssl \in BoolTexts}

\* every combination of set and unset AZURE_* variables, under the selectors of Azure
AzureEnvs ==
    {[EnvUnset EXCEPT !["STORAGE_TYPE"] = st, !["AZURE_STORAGE_ACCOUNT"] = ac,
                      !["AZURE_STORAGE_KEY"] = ky, !["AZURE_STORAGE_CONTAINER"] = ct,
                      !["AZURE_STORAGE_ENDPOINT"] = ep, !["AZURE_BLOB_ACCESS_TIER"] = tr,
                      !["AZURE_CONTAINER_ACCESS_TYPE"] = at] :
        st \in AzureSelectors,
        ac \in {<< >>, <<"a", "c", "c", "t">>},
        ky \in {<< >>, <<"k", "e", "y">>},
        ct \in {<< >>, <<"u", "p", "l", "o", "a", "d", "s">>, <<"d", "o", "c", "s">>},
        ep \in {<< >>, <<"h", "t", "t", "p", ":", "/", "/", "a", "z">>},
        tr \in {<< >>, <<"H", "o", "t">>},
        at \in {<< >>, <<"b", "l", "o", "b">>}}

\* the other selectors, with the variables of both backends unset or set
OtherEnvs ==
    {[EnvUnset EXCEPT !["STORAGE_TYPE"] = st, !["MINIO_BUCKET"] = bk,
                      !["AZURE_STORAGE_ACCOUNT"] = ac, !["AZURE_STORAGE_KEY"] = ky] :
        st \in OtherSelectors,
        bk \in {<< >>, <<"m", "e", "d", "i", "a">>},
        ac \in {<< >>, <<"a", "c", "c", "t">>},
        ky \in {<< >>, <<"k", "e", "y">>}}

EnvAll == MinIOEnvs \cup AzureEnvs \cup OtherEnvs

\* the environments of the lifecycle specification
EnvSmall ==
    {EnvUnset,
     [EnvUnset EXCEPT !["STORAGE_TYPE"] = <<"a", "z", "u", "r", "e">>,
                      !["AZURE_STORAGE_ACCOUNT"] = <<"a", "c", "c", "t">>,
                      !["AZURE_STORAGE_KEY"] = <<"k", "e", "y">>,
                      !["AZURE_STORAGE_CONTAINER"] = <<"u", "p", "l", "o", "a", "d", "s">>],
     [EnvUnset EXCEPT !["STORAGE_TYPE"] = <<"d", "i", "s", "k">>]}

\* the configurations CreateFromConfig is called with in the lifecycle specification
ConfigSmall ==
    {MkConfig(MinIO, FALSE, NoProps),
     MkConfig(MinIO, TRUE, [k \in {"bucket", "useSSL"} |->
                              IF k = "bucket" THEN StrVal("media") ELSE BoolVal(TRUE)]),
     MkConfig(Azure, TRUE, [k \in {"accountName", "accountKey"} |->
                              IF k = "accountName" THEN StrVal("acct") ELSE StrVal("key")]),
     MkConfig(Azure, TRUE, [k \in {"accountName"} |-> StrVal("acct")]),
     MkConfig(Disk, FALSE, NoProps),
     MkConfig("MINIO", FALSE, NoProps)}

\* values of one Azure property: absent, empty, a string, a value of another type
PropChoices == {"absent", "empty", "string", "bool"}
PropValue(choice, s) ==
    IF choice = "empty" THEN StrVal("") ELSE IF choice = "string" THEN StrVal(s)
    ELSE BoolVal(TRUE)

AzureKeys ==
    {"accountName", "accountKey", "containerName", "endpoint", "blobAccessTier",
     "containerAccessType"}
AzureSample ==
    [accountName |-> "acct", accountKey |-> "key", containerName |-> "docs",
     endpoint |-> "http://azurite", blobAccessTier |-> "Hot",
     containerAccessType |-> "blob"]

\* every Azure Config: Properties nil, or each key absent / empty / set / mistyped
AzureConfigAll ==
    {MkConfig(Azure, FALSE, NoProps)} \cup
    {MkConfig(Azure, TRUE,
              [k \in {x \in AzureKeys : c[x] # "absent"} |-> PropValue(c[k], AzureSample[k])]) :
        c \in [AzureKeys -> PropChoices]}

S3StringKeys == {"endpoint", "bucket", "region", "accessKey", "secretKey"}
S3BoolKeys == {"useSSL", "pathStyle", "disableSSL"}
S3Keys == S3StringKeys \cup S3BoolKeys
S3MainKeys == {"endpoint", "bucket", "region"}
S3Sample ==
    [endpoint |-> "s3.local:80", bucket |-> "media", region |-> "eu-west-1",
     accessKey |-> "ak", secretKey |-> "sk",
     useSSL |-> "true", pathStyle |-> "false", disableSSL |-> "false"]

\* a value of one S3 property: an empty string, a string, or a boolean (the
\* opposite of the default of a boolean property)
S3PropValue(key, choice) ==
    IF choice = "empty" THEN StrVal("")
    ELSE IF choice = "string" THEN StrVal(S3Sample[key])
    ELSE BoolVal(key \in S3StringKeys \cup {"useSSL"})

\* the choice that gives a key a value of its own type
RightChoice(key) == IF key \in S3BoolKeys THEN "bool" ELSE "string"

S3ConfigOf(c) ==
    MkConfig(MinIO, TRUE,
             [k \in {x \in S3Keys : c[x] # "absent"} |-> S3PropValue(k, c[k])])

\* S3 Configs: Properties nil; endpoint, bucket and region each absent / empty /
\* set / mistyped, beside one other key absent / empty / set / mistyped and the
\* remaining keys absent; and the same with every other key set
MinIOConfigAll ==
    {MkConfig(MinIO, FALSE, NoProps)} \cup
    {S3ConfigOf([x \in S3Keys |-> IF x \in S3MainKeys THEN main[x]
                                  ELSE IF x = k THEN ch ELSE "absent"]) :
        main \in [S3MainKeys -> PropChoices], k \in S3Keys \ S3MainKeys,
        ch \in PropChoices} \cup
    {S3ConfigOf([x \in S3Keys |-> IF x \in S3MainKeys THEN main[x] ELSE RightChoice(x)]) :
        main \in [S3MainKeys -> PropChoices]}

\* names of the variables that override the configuration
AppVars ==
    [port     |-> EnvPrefix \o <<"A", "P", "P", "_", "P", "O", "R", "T">>,
     debug    |-> EnvPrefix \o <<"A", "P", "P", "_", "D", "E", "B", "U", "G">>,
     type     |-> EnvPrefix \o <<"S", "T", "O", "R", "A", "G", "E", "_", "T", "Y", "P", "E">>,
     level    |-> EnvPrefix \o <<"L", "O", "G", "G", "I", "N", "G", "_", "L", "E", "V", "E", "L">>,
     s3access |-> EnvPrefix \o <<"S", "3", "_", "A", "C", "C", "E", "S", "S", "K", "E", "Y">>,
     s3secret |-> EnvPrefix \o <<"S", "3", "_", "S", "E", "C", "R", "E", "T", "K", "E", "Y">>,
     endpoint |-> EnvPrefix \o <<"M", "I", "N", "I", "O", "_", "E", "N", "D", "P", "O", "I", "N", "T">>,
     bucket   |-> EnvPrefix \o <<"M", "I", "N", "I", "O", "_", "B", "U", "C", "K", "E", "T">>]

\* the values each of them is given; << >> stands for a variable that is not set
AppValues ==
    [port     : {<< >>, <<<<"8", "8", "8", "8">>>>, <<<<"a", "b", "c">>>>},
     debug    : {<< >>, <<<<"t", "r", "u", "e">>>>, <<<<"T", "R", "U", "E">>>>,
                 <<<<"f", "a", "l", "s", "e">>>>},
     type     : {<< >>, <<<<"s", "3">>>>},
     level    : {<< >>, <<<<"e", "r", "r", "o", "r">>>>},
     s3access : {<< >>, <<<<"a", "k">>>>},
     s3secret : {<< >>, <<<<"s", "=", "k">>>>},
     endpoint : {<< >>, <<<<"m", "i", "n", "i", "o", ":", "9", "0", "0", "0">>>>},
     bucket   : {<< >>, <<<<"m", "e", "d", "i", "a">>>>}]

\* the entry NAME=value of os.Environ(), or none for a variable that is not set
Entry(name, value) ==
    IF value = << >> THEN << >> ELSE <<name \o <<"=">> \o value[1]>>

\* os.Environ(): a variable without the prefix, then those of AppVars that are set
EnvironOf(c) ==
    <<<<"P", "O", "R", "T", "=", "3", "0", "0", "0">>>>
    \o Entry(AppVars.port, c.port) \o Entry(AppVars.debug, c.debug)
    \o Entry(AppVars.type, c.type) \o Entry(AppVars.level, c.level)
    \o Entry(AppVars.s3access, c.s3access) \o Entry(AppVars.s3secret, c.s3secret)
    \o Entry(AppVars.endpoint, c.endpoint) \o Entry(AppVars.bucket, c.bucket)

Environs == {EnvironOf(c) : c \in AppValues}

\* the Config of TestEnvironmentOverrides and the one the README shows
TestConfig ==
    [NoAppConfig EXCEPT !.App = [Name |-> "test-app", Environment |-> "testing",
                                 Port |-> 9090, Debug |-> TRUE],
                        !.Storage.Type = "local",
                        !.Storage.S3.Bucket = "default-bucket",
                        !.Logging.Level = "debug"]
ReadmeConfig ==
    [NoAppConfig EXCEPT !.App = [Name |-> "large-file-uploads",
                                 Environment |-> "development",
                                 Port |-> 8080, Debug |-> TRUE],
                        !.Storage.Type = "minio",
                        !.Storage.S3.Region = "us-east-1",
                        !.Storage.S3.Bucket = "my-uploads-bucket",
                        !.Storage.Azure.ContainerName = "uploads",
                        !.Storage.Minio = [Endpoint |-> "localhost:9000",
                                           AccessKey |-> "minioadmin",
                                           SecretKey |-> "minioadmin",
                                           SSL |-> FALSE, Bucket |-> "uploads"]]
FileConfigs == {TestConfig, ReadmeConfig}

\* the Configs main() may get from config.Load: the README's, with each storage
\* type a file may name (none, the two registered providers in two spellings, and
\* two types that only package config knows)
MainConfigs ==
    {[ReadmeConfig EXCEPT !.Storage.Type = t] :
        t \in {"", "minio", "azure", "Azure", "s3", "local"}}

\* the Configs Validate is called on: every combination of a port, a storage
\* type and each field that some type requires being empty or set
ValidateConfigs ==
    {[NoAppConfig EXCEPT !.App.Port = port, !.Storage.Type = t,
                         !.Storage.Local.RootDir = f.rootDir,
                         !.Storage.Local.TempDir = f.tempDir,
                         !.Storage.S3.Bucket = f.bucket,
                         !.Storage.Azure.ContainerName = f.container,
                         !.Storage.Minio.Endpoint = f.endpoint,
                         !.Storage.Minio.Bucket = f.minioBucket] :
        port \in {-1, 0, 8080},
        t \in {"local", "s3", "azure", "minio", "", "disk", "S3"},
        f \in [rootDir : {"", "./uploads"}, tempDir : {"", "./temp"},
               bucket : {"", "test-bucket"}, container : {"", "uploads"},
               endpoint : {"", "localhost:9000"}, minioBucket : {"", "uploads"}]}

\* endpoints of the S3-compatible service, as their characters: every length
\* from 0 to 5 and beyond, with and without a scheme
Endpoints ==
    {<< >>, <<"m">>, <<"s", "3">>, <<"s", "3", ":">>,
     <<"h", "t", "t">>, <<"h", "t", "t", "p">>, <<"h", "o", "s", "t">>,
     <<"s", "3", ":", "9">>, <<"H", "T", "T", "P">>,
     <<"s", "3", ":", "8", "0">>, <<"h", "t", "t", "p", "s">>,
     <<"h", "t", "t", "p", "x">>, <<"m", "i", "n", "i", "o">>,
     <<"h", "t", "t", "p", ":", "/", "/", "s", "3">>,
     <<"h", "t", "t", "p", "s", ":", "/", "/", "s", "3">>,
     <<"m", "i", "n", "i", "o", ":", "9", "0", "0", "0">>}

\* values of the Authorization header; << >> is a request without the header
AuthHeaders ==
    {<< >>,
     Bearer \o <<" ", "a", "b", "c">>, Bearer \o <<" ", "x", "y">>,
     Bearer \o <<" ">>, Bearer,
     Bearer \o <<" ", " ", "a", "b", "c">>, Bearer \o <<" ", "a", "b", "c", " ">>,
     Bearer \o <<" ", "a", "b", " ", "c">>, <<" ">> \o Bearer \o <<" ", "a", "b", "c">>,
     <<"b", "e", "a", "r", "e", "r", " ", "a", "b", "c">>,
     <<"B", "E", "A", "R", "E", "R", " ", "a", "b", "c">>,
     <<"B", "a", "s", "i", "c", " ", "a", "b", "c">>,
     Bearer \o <<"a", "b", "c">>, <<"a", "b", "c">>,
     <<"a", "b", "c", " ">> \o Bearer}

\* the goroutines that call config.Load and config.Get, the paths they pass to
\* Load, and the files those paths name
Goroutines == {"g1", "g2"}
LoadPaths == {"", "other.yml"}
ConfigFiles == {DefaultConfigPath, "other.yml"}

\* upload ids and the requests that write to them
Uploads == {"upload-1", "upload-2"}
Writers == {"request-1", "request-2"}

\* the SDK's answers during one call on the backend registered for a provider:
\* an answer is FALSE also for a call that is never reached
SdkOutcomes(r, provider) ==
    IF provider \in DOMAIN r /\ r[provider] = MinIOInst
    THEN {o \in [load : BOOLEAN, head : BOOLEAN, create : BOOLEAN, service : {TRUE}] :
            /\ ~o.load => ~o.head /\ ~o.create
            /\ o.head => ~o.create}
    ELSE [load : {TRUE}, head : {TRUE}, create : {FALSE}, service : BOOLEAN]

----------------------------------------------------------------------------
(* State *)

NoAnswers == [load |-> FALSE, head |-> FALSE, create |-> FALSE, service |-> FALSE]

\* before: for GetStoreComposer, what the call right before it returned when that
\* was GetStoreComposer on the same instance; for Register, the entry replaced.
\* log: the records an Initialize called directly, a request handler or the
\* upload hook emitted.  chars, flag: the endpoint and useSSL of minioURL, or the
\* Authorization header of a request.  app, mkdir: the Config Validate was called
\* on and the answers of os.MkdirAll
LastNone ==
    [op |-> "none", inst |-> NilStorage, arg |-> "", storage |-> NilStorage,
     err |-> NilErr, handler |-> NilHandler, composer |-> NilComposer,
     cfg |-> NoConfig, trace |-> << >>, getErr |-> NilErr, initErr |-> NilErr,
     sdk |-> << >>, provider |-> "", answers |-> NoAnswers, before |-> << >>,
     log |-> << >>, chars |-> << >>, flag |-> FALSE,
     url |-> [panic |-> FALSE, url |-> << >>], app |-> NoAppConfig,
     mkdir |-> [rootDir |-> FALSE, tempDir |-> FALSE], verifier |-> "",
     resp |-> [status |-> 0, body |-> "", next |-> FALSE, user |-> NilUser]]

\* the state after NewFactory() (and, beside it, NewRegistry())
InitStorage ==
    /\ providers = NewFactory
    /\ reg = NewRegistry
    /\ registered = {}
    /\ storages = [i \in Instances |->
                     IF i = MinIOInst THEN NewMinIOStorage(ComposerId(i, 0))
                                      ELSE NewAzureStorage(ComposerId(i, 0))]
    /\ nextHandler = 1
    /\ initCalls = [i \in Instances |-> 0]
    /\ okCalls = [i \in Instances |-> 0]
    /\ first = [i \in Instances |-> NilComposer.id]
    /\ last = LastNone

\* no handler mounted, no upload being written
IdleLocks == handlers = {} /\ locks = {}

\* package config not used
IdleConfig == environ = << >> /\ appCfg = NoAppConfig /\ fileCfg = NoAppConfig

\* main() before config.Load
MainStart ==
    /\ store = NilStorage
    /\ tusHandler = NilHandler
    /\ http = "off"
    /\ exited = << >>
    /\ storageProvider = ""

\* main() not running
IdleMain == pc = "idle" /\ MainStart

\* a goroutine that is in no call of package config; synced tells whether it
\* has passed once.Do
NoCall ==
    [fn |-> "none", pc |-> "idle", path |-> "", loadErr |-> NilErr, cfg |-> 0,
     synced |-> FALSE]

\* package config as the process starts: no instance, a fresh Once
FreshLoad ==
    /\ instance = 0
    /\ once = "fresh"
    /\ calls = [g \in Goroutines |-> NoCall]
    /\ reads = 0
    /\ applied = 0
    /\ returns = {}

\* Load and Get not called
IdleLoad == FreshLoad /\ fileOk = [f \in ConfigFiles |-> FALSE]

InitCommon == InitStorage /\ IdleLocks /\ IdleConfig /\ IdleMain /\ IdleLoad

----------------------------------------------------------------------------
(* Operations *)

\* Initialize calls made so far
RECURSIVE Sum(_, _)
Sum(f, S) == IF S = {} THEN 0 ELSE LET x == CHOOSE x \in S : TRUE
                                   IN  f[x] + Sum(f, S \ {x})
TotalInit == Sum(initCalls, Instances)

\* the ids of the composers the next NewStoreComposer() calls allocate
Fresh == [i \in Instances |-> ComposerId(i, okCalls[i] + 1)]

\* the composer first handed out for instance i after its first success
Handed(i, composerId) ==
    IF okCalls[i] > 0 /\ first[i] = NilComposer.id
    THEN [first EXCEPT ![i] = composerId] ELSE first

\* the effect of a factory call that returned res; arg is the provider asked for
Created(op, arg, res) ==
    /\ res.inst # NilStorage => TotalInit < MaxInit
    /\ storages' = res.sts
    /\ initCalls' = IF res.inst = NilStorage THEN initCalls
                    ELSE [initCalls EXCEPT ![res.inst] = @ + 1]
    /\ okCalls' = IF res.inst = NilStorage \/ res.initErr # NilErr THEN okCalls
                  ELSE [okCalls EXCEPT ![res.inst] = @ + 1]
    /\ last' = [LastNone EXCEPT !.op = op, !.inst = res.inst, !.storage = res.storage,
                                !.err = res.err, !.cfg = res.cfg, !.trace = res.trace,
                                !.getErr = res.getErr, !.initErr = res.initErr,
                                !.sdk = res.sdk, !.arg = arg]
    /\ UNCHANGED <<env, cfgIn, providers, reg, registered, nextHandler, first>>

\* factory.CreateFromEnv(ctx)
CreateFromEnvAct ==
    /\ \E sdk \in SdkOutcomes(providers, EnvProvider(env)) :
          Created("CreateFromEnv", EnvProvider(env),
                  CreateFromEnv(providers, env, storages, sdk, Fresh))
    /\ UNCHANGED outside

\* factory.CreateFromConfig(ctx, cfg)
CreateFromConfigAct ==
    /\ \E cfg \in ConfigSmall :
        \E sdk \in SdkOutcomes(providers, cfg.Provider) :
          Created("CreateFromConfig", cfg.Provider,
                  CreateFromConfig(providers, cfg, storages, sdk, Fresh))
    /\ UNCHANGED outside

\* the effect of storage.GetHandler(basePath) on backend instance i
GetHandlerCall(i, basePath) ==
    LET r == GetHandler(storages[i], basePath, nextHandler)
    IN  /\ nextHandler <= MaxHandlers
        /\ nextHandler' = IF r.err = NilErr THEN nextHandler + 1 ELSE nextHandler
        /\ first' = IF r.err = NilErr THEN Handed(i, r.handler.composer) ELSE first
        /\ last' = [LastNone EXCEPT !.op = "GetHandler", !.inst = i, !.arg = basePath,
                                    !.handler = r.handler, !.err = r.err]
        /\ UNCHANGED <<env, cfgIn, providers, reg, registered, storages,
                       initCalls, okCalls>>

\* storage.GetHandler(basePath) on a backend instance
GetHandlerAct ==
    /\ \E i \in Instances, basePath \in BasePaths : GetHandlerCall(i, basePath)
    /\ UNCHANGED outside

\* a GetStoreComposer that builds the composer anew on every call
GetStoreComposerAct_Rebuild ==
    /\ \E i \in Instances :
        /\ storages' = [storages EXCEPT ![i].composer =
                           NewStoreComposer(ComposerId(i, okCalls[i] + 1))]
        /\ first' = Handed(i, storages'[i].composer.id)
        /\ last' = [LastNone EXCEPT
                      !.op = "GetStoreComposer", !.inst = i,
                      !.composer = storages'[i].composer,
                      !.before = IF last.op = "GetStoreComposer" /\ last.inst = i
                                 THEN <<last.composer>> ELSE << >>]
        /\ UNCHANGED <<env, cfgIn, providers, reg, registered,
                       nextHandler, initCalls, okCalls>>
    /\ UNCHANGED outside

\* storage.GetStoreComposer() on a backend instance
GetStoreComposerAct ==
    /\ \E i \in Instances :
        /\ first' = Handed(i, GetStoreComposer(storages[i]).id)
        /\ last' = [LastNone EXCEPT
                      !.op = "GetStoreComposer", !.inst = i,
                      !.composer = GetStoreComposer(storages[i]),
                      !.before = IF last.op = "GetStoreComposer" /\ last.inst = i
                                 THEN <<last.composer>> ELSE << >>]
        /\ UNCHANGED <<env, cfgIn, providers, reg, registered, storages,
                       nextHandler, initCalls, okCalls>>
    /\ UNCHANGED outside

\* storage.GetProvider() on a backend instance
GetProviderAct ==
    /\ \E i \in Instances :
        /\ last' = [LastNone EXCEPT !.op = "GetProvider", !.inst = i,
                                    !.provider = GetProvider(storages[i])]
        /\ UNCHANGED <<env, cfgIn, providers, reg, registered, storages,
                       nextHandler, initCalls, okCalls, first>>
    /\ UNCHANGED outside

\* storage.Initialize(ctx, cfgIn), called on the Azure backend directly
AzureInitializeAct ==
    /\ \E sdk \in SdkOutcomes(providers, Azure) :
        LET r == AzureInitialize(storages[AzureInst], cfgIn, sdk, Fresh[AzureInst])
        IN  /\ TotalInit < MaxInit
            /\ storages' = [storages EXCEPT ![AzureInst] = r.s]
            /\ initCalls' = [initCalls EXCEPT ![AzureInst] = @ + 1]
            /\ okCalls' = IF r.err = NilErr THEN [okCalls EXCEPT ![AzureInst] = @ + 1]
                          ELSE okCalls
            /\ last' = [LastNone EXCEPT !.op = "Initialize", !.inst = AzureInst,
                                        !.err = r.err, !.initErr = r.err, !.cfg = cfgIn,
                                        !.trace = <<"Initialize">>, !.sdk = r.sdk]
            /\ UNCHANGED <<env, cfgIn, providers, reg, registered, nextHandler, first>>
    /\ UNCHANGED outside

\* storage.Initialize(ctx, cfgIn), called directly on the backend of the
\* provider that cfgIn names
InitializeAct ==
    /\ \E i \in Instances :
        \E sdk \in SdkOutcomes(providers, GetProvider(storages[i])) :
          LET r == Initialize(storages[i], cfgIn, sdk, Fresh[i])
          IN  /\ GetProvider(storages[i]) = cfgIn.Provider
              /\ TotalInit < MaxInit
              /\ storages' = [storages EXCEPT ![i] = r.s]
              /\ initCalls' = [initCalls EXCEPT ![i] = @ + 1]
              /\ okCalls' = IF r.err = NilErr THEN [okCalls EXCEPT ![i] = @ + 1]
                            ELSE okCalls
              /\ last' = [LastNone EXCEPT !.op = "Initialize", !.inst = i,
                                          !.err = r.err, !.initErr = r.err, !.cfg = cfgIn,
                                          !.trace = <<"Initialize">>, !.sdk = r.sdk,
                                          !.answers = sdk,
                                          !.log = InitializeLog(storages[i], cfgIn, sdk)]
              /\ UNCHANGED <<env, cfgIn, providers, reg, registered, nextHandler, first>>
    /\ UNCHANGED outside

\* provider ids callers use: the four declared ones and two undeclared strings
ProviderIds == {MinIO, Azure, Disk, Memory, "s3", "MINIO"}

\* registry.Register(id, impl) on the stand-alone registry
RegisterAct ==
    /\ \E id \in ProviderIds, impl \in Instances :
        /\ reg' = Register(reg, id, impl)
        /\ registered' = registered \cup {id}
        /\ last' = [LastNone EXCEPT !.op = "Register", !.arg = id, !.storage = impl,
                                    !.before = IF id \in DOMAIN reg THEN <<reg[id]>>
                                               ELSE << >>]
        /\ UNCHANGED <<env, cfgIn, providers, storages, nextHandler, initCalls, okCalls,
                       first>>
    /\ UNCHANGED outside

\* registry.Get(id) on the stand-alone registry
RegistryGetAct ==
    /\ \E id \in ProviderIds :
        /\ last' = [LastNone EXCEPT !.op = "Registry.Get", !.arg = id,
                                    !.storage = RegistryGet(reg, id).storage,
                                    !.err = RegistryGet(reg, id).err]
        /\ UNCHANGED <<env, cfgIn, providers, reg, registered, storages, nextHandler,
                       initCalls, okCalls, first>>
    /\ UNCHANGED outside

\* f.registry.Get(id) on the registry NewFactory built
FactoryGetAct ==
    /\ \E id \in ProviderIds :
        /\ last' = [LastNone EXCEPT !.op = "Factory.Get", !.arg = id,
                                    !.storage = RegistryGet(providers, id).storage,
                                    !.err = RegistryGet(providers, id).err]
        /\ UNCHANGED <<env, cfgIn, providers, reg, registered, storages, nextHandler,
                       initCalls, okCalls, first>>
    /\ UNCHANGED outside

\* storage.GetHandler(basePath), the handler returned being mounted to serve
\* requests (main.go, lines 71-75 and 145)
MountAct ==
    /\ \E i \in Instances, basePath \in BasePaths :
        /\ GetHandlerCall(i, basePath)
        /\ handlers' = IF last'.err # NilErr THEN handlers
                       ELSE handlers \cup {[id |-> last'.handler.id, inst |-> i,
                                            composer |-> last'.handler.composer]}
    /\ UNCHANGED <<locks, configVars, mainVars, loadVars>>

\* a request writing to an upload through a mounted handler takes the upload's
\* lock from the locker of the handler's composer
LockAct ==
    /\ \E m \in handlers, u \in Uploads, w \in Writers :
        /\ ~\E l \in locks : l.writer = w
        /\ CanLock(locks, m.composer, u)
        /\ locks' = Lock(locks, m.composer, u, w)
        /\ last' = [LastNone EXCEPT !.op = "Lock", !.inst = m.inst, !.arg = u]
    /\ UNCHANGED <<env, cfgIn, providers, reg, registered, storages, nextHandler,
                   initCalls, okCalls, first, handlers, configVars, mainVars, loadVars>>

\* the request releases the lock when its write is over
UnlockAct ==
    /\ \E l \in locks :
        /\ locks' = Unlock(locks, l.locker, l.upload)
        /\ last' = [LastNone EXCEPT !.op = "Unlock", !.inst = l.locker[1],
                                    !.arg = l.upload]
    /\ UNCHANGED <<env, cfgIn, providers, reg, registered, storages, nextHandler,
                   initCalls, okCalls, first, handlers, configVars, mainVars, loadVars>>

\* applyEnvironmentOverrides(cfg) on the Config read from the file
OverridesAct ==
    /\ appCfg' = applyEnvironmentOverrides(appCfg, environ)
    /\ last' = [LastNone EXCEPT !.op = "applyEnvironmentOverrides"]
    /\ UNCHANGED <<env, cfgIn, providers, reg, registered, storages, nextHandler,
                   initCalls, okCalls, first, lockVars, environ, fileCfg, mainVars,
                   loadVars>>

\* os.Exit(1)
Exit1 == pc' = "exited" /\ exited' = <<1>>

\* main(), lines 48-58: the provider main() determines and logs
DetermineProvider(cfg, e) ==
    IF cfg.Storage.Type # "" THEN cfg.Storage.Type
    ELSE IF Getenv(e, "STORAGE_TYPE") # << >> THEN Join(Getenv(e, "STORAGE_TYPE"))
    ELSE MinIO

\* main(), lines 22-26: config.Load("config.yml") in a process that has not
\* loaded it yet; the file may be missing or not decodable
MainLoadAct ==
    /\ pc = "load"
    /\ \E ok \in BOOLEAN, cfg \in MainConfigs :
        IF ok
        THEN /\ fileCfg' = cfg
             /\ appCfg' = applyEnvironmentOverrides(cfg, environ)
             /\ pc' = "create" /\ UNCHANGED exited
        ELSE Exit1 /\ UNCHANGED <<appCfg, fileCfg>>
    /\ last' = [LastNone EXCEPT !.op = "config.Load"]
    /\ UNCHANGED <<env, cfgIn, providers, reg, registered, storages, nextHandler,
                   initCalls, okCalls, first, lockVars, environ, store, tusHandler,
                   http, storageProvider, loadVars>>

\* a main() that goes on to GetHandler also when CreateFromEnv failed
MainCreateAct_IgnoreError ==
    /\ pc = "create"
    /\ storageProvider' = DetermineProvider(appCfg, env)
    /\ \E sdk \in SdkOutcomes(providers, EnvProvider(env)) :
          Created("CreateFromEnv", EnvProvider(env),
                  CreateFromEnv(providers, env, storages, sdk, Fresh))
    /\ store' = IF last'.err # NilErr THEN AzureInst ELSE last'.storage
    /\ pc' = "handler" /\ UNCHANGED exited
    /\ UNCHANGED <<lockVars, configVars, tusHandler, http, loadVars>>

\* main(), lines 48-66: the provider is determined and logged, then NewFactory
\* and CreateFromEnv
MainCreateAct ==
    /\ pc = "create"
    /\ storageProvider' = DetermineProvider(appCfg, env)
    /\ \E sdk \in SdkOutcomes(providers, EnvProvider(env)) :
          Created("CreateFromEnv", EnvProvider(env),
                  CreateFromEnv(providers, env, storages, sdk, Fresh))
    /\ store' = last'.storage
    /\ IF last'.err # NilErr THEN Exit1 ELSE pc' = "handler" /\ UNCHANGED exited
    /\ UNCHANGED <<lockVars, configVars, tusHandler, http, loadVars>>

\* main(), lines 71-75: store.GetHandler("/files/")
MainHandlerAct ==
    /\ pc = "handler"
    /\ GetHandlerCall(store, "/files/")
    /\ tusHandler' = last'.handler
    /\ IF last'.err # NilErr THEN Exit1 ELSE pc' = "run" /\ UNCHANGED exited
    /\ UNCHANGED <<lockVars, configVars, store, http, storageProvider, loadVars>>

\* main(), lines 77-161: the hook goroutine is started, the routes are set and
\* r.Run(":" + port) listens and serves, or fails at once
MainRunAct ==
    /\ pc = "run"
    /\ \E ok \in BOOLEAN :
        IF ok THEN http' = "listening" /\ pc' = "serving" /\ UNCHANGED exited
        ELSE UNCHANGED http /\ Exit1
    /\ last' = [LastNone EXCEPT !.op = "Run"]
    /\ UNCHANGED <<env, cfgIn, providers, reg, registered, storages, nextHandler,
                   initCalls, okCalls, first, lockVars, configVars, store, tusHandler,
                   storageProvider, loadVars>>

\* the state of package storage that no action of package config, of package
\* auth or of a request handler writes
factoryVars ==
    <<env, cfgIn, providers, reg, registered, storages, nextHandler, initCalls,
      okCalls, first>>

\* a health handler that creates the storage again for every request
HealthAct_Reinitialize ==
    /\ http = "listening"
    /\ \E sdk \in SdkOutcomes(providers, EnvProvider(env)) :
          Created("CreateFromEnv", EnvProvider(env),
                  CreateFromEnv(providers, env, storages, sdk, Fresh))
    /\ UNCHANGED outside

\* main(), lines 128-133: GET /health answers with store.GetProvider()
HealthAct ==
    /\ http = "listening"
    /\ last' = [LastNone EXCEPT !.op = "health", !.inst = store,
                                !.provider = GetProvider(storages[store]),
                                !.resp = [status |-> 200, body |-> "ok", next |-> FALSE,
                                          user |-> NilUser]]
    /\ UNCHANGED <<factoryVars, outside>>

\* main(), line 145: a request under /files/ is served by tusHandler, which takes
\* the lock of the upload from the locker of the composer it was built with
TusLockAct ==
    /\ http = "listening"
    /\ \E u \in Uploads, w \in Writers :
        /\ ~\E l \in locks : l.writer = w
        /\ CanLock(locks, tusHandler.composer, u)
        /\ locks' = Lock(locks, tusHandler.composer, u, w)
        /\ last' = [LastNone EXCEPT !.op = "tus.Lock", !.inst = store, !.arg = u]
    /\ UNCHANGED <<factoryVars, handlers, configVars, mainVars, loadVars>>

\* the request is over: tusHandler releases the lock
TusUnlockAct ==
    /\ http = "listening"
    /\ \E l \in locks :
        /\ locks' = Unlock(locks, l.locker, l.upload)
        /\ last' = [LastNone EXCEPT !.op = "tus.Unlock", !.inst = store,
                                    !.arg = l.upload]
    /\ UNCHANGED <<factoryVars, handlers, configVars, mainVars, loadVars>>

\* main(), lines 78-87: the goroutine receives an event from
\* tusHandler.CompleteUploads and logs it
HookAct ==
    /\ http = "listening"
    /\ \E u \in Uploads :
        last' = [LastNone EXCEPT
                   !.op = "CompleteUploads", !.arg = u,
                   !.log = <<LogRecord("INFO", "Upload completed",
                                       <<<<"id", StrVal(u)>>>>)>>]
    /\ UNCHANGED <<factoryVars, outside>>

\* Validate() on a Config (these three functions keep no state: one call is
\* explored per behaviour)
ValidateAct ==
    /\ last.op = "none"
    /\ \E c \in ValidateConfigs, mkdir \in [rootDir : BOOLEAN, tempDir : BOOLEAN] :
        last' = [LastNone EXCEPT !.op = "Validate", !.app = c, !.mkdir = mkdir,
                                 !.err = Validate(c, mkdir)]
    /\ UNCHANGED <<factoryVars, outside>>

\* Initialize, lines 421-431, for an endpoint and a value of useSSL
MinioURLAct ==
    /\ last.op = "none"
    /\ \E endpoint \in Endpoints, useSSL \in BOOLEAN :
        last' = [LastNone EXCEPT !.op = "minioURL", !.chars = endpoint,
                                 !.flag = useSSL, !.url = minioURL(endpoint, useSSL)]
    /\ UNCHANGED <<factoryVars, outside>>

\* a request passes through the handler that Authenticate(next) returned
AuthenticateAct ==
    /\ last.op = "none"
    /\ \E verifier \in Verifiers, authHeader \in AuthHeaders :
        last' = [LastNone EXCEPT !.op = "Authenticate", !.verifier = verifier,
                                 !.chars = authHeader,
                                 !.resp = Authenticate(verifier, authHeader)]
    /\ UNCHANGED <<factoryVars, outside>>

\* the frame of the steps of config.Load and config.Get
LoadFrame == UNCHANGED <<factoryVars, last, lockVars, environ, fileCfg, mainVars, fileOk>>

\* goroutine g calls config.Load(path)
LoadCallAct ==
    /\ \E g \in Goroutines, path \in LoadPaths :
        /\ calls[g].pc = "idle"
        /\ calls' = [calls EXCEPT ![g].fn = "Load", ![g].pc = "once", ![g].path = path]
    /\ UNCHANGED <<instance, once, reads, applied, returns, appCfg>>
    /\ LoadFrame

\* goroutine g calls config.Get(): it reads instance and, having read nil, calls
\* Load("")
GetCallAct ==
    /\ \E g \in Goroutines :
        /\ calls[g].pc = "idle"
        /\ \E v \in ReadInstance(instance, calls[g].synced) :
            calls' = [calls EXCEPT ![g].fn = "Get", ![g].path = "",
                                   ![g].pc = IF v = 0 THEN "once" ELSE "getret"]
    /\ UNCHANGED <<instance, once, reads, applied, returns, appCfg>>
    /\ LoadFrame

\* Load, line 103: once.Do(func() {...}); a goroutine that has to wait takes no step
OnceDoAct ==
    /\ \E g \in Goroutines :
        /\ calls[g].pc = "once"
        /\ OnceDo(once) # "wait"
        /\ IF OnceDo(once) = "run"
           THEN /\ once' = "running"
                /\ calls' = [calls EXCEPT ![g].pc = "read"]
           ELSE /\ once' = once
                /\ calls' = [calls EXCEPT ![g].pc = "ret", ![g].synced = TRUE]
    /\ UNCHANGED <<instance, reads, applied, returns, appCfg>>
    /\ LoadFrame

\* Load, lines 104-116, inside once.Do: loadFromFile(configPath); after a failure
\* loadErr is set and the function returns, after a success the overrides are
\* applied to the Config read
LoadFileAct ==
    /\ \E g \in Goroutines :
        LET configPath == IF calls[g].path = "" THEN DefaultConfigPath
                          ELSE calls[g].path
        IN  /\ calls[g].pc = "read"
            /\ reads' = reads + 1
            /\ IF fileOk[configPath]
               THEN /\ appCfg' = applyEnvironmentOverrides(fileCfg, environ)
                    /\ applied' = applied + 1
                    /\ calls' = [calls EXCEPT ![g].cfg = reads + 1, ![g].pc = "assign"]
                    /\ once' = once
               ELSE /\ calls' = [calls EXCEPT
                                   ![g].loadErr =
                                       Wrap("failed to load config from file",
                                            <<"could not open config file">>),
                                   ![g].pc = "ret", ![g].synced = TRUE]
                    /\ once' = "done"
                    /\ UNCHANGED <<appCfg, applied>>
    /\ UNCHANGED <<instance, returns>>
    /\ LoadFrame

\* Load, lines 118-122, inside once.Do: instance = cfg, and the function returns
LoadAssignAct ==
    /\ \E g \in Goroutines :
        /\ calls[g].pc = "assign"
        /\ instance' = calls[g].cfg
        /\ once' = "done"
        /\ calls' = [calls EXCEPT ![g].pc = "ret", ![g].synced = TRUE]
    /\ UNCHANGED <<reads, applied, returns, appCfg>>
    /\ LoadFrame

\* Load, lines 124-128: return nil, loadErr or return instance, nil (to the
\* caller of Load, or through Get to the caller of Get)
LoadReturnAct ==
    /\ \E g \in Goroutines :
        /\ calls[g].pc = "ret"
        /\ returns' = returns \cup
              {IF calls[g].loadErr # NilErr
               THEN [fn |-> calls[g].fn, cfg |-> 0, err |-> calls[g].loadErr]
               ELSE [fn |-> calls[g].fn, cfg |-> instance, err |-> NilErr]}
        /\ calls' = [calls EXCEPT ![g] = [NoCall EXCEPT !.synced = calls[g].synced]]
    /\ UNCHANGED <<instance, once, reads, applied, appCfg>>
    /\ LoadFrame

\* Get, line 137: return instance, nil
GetReturnAct ==
    /\ \E g \in Goroutines :
        /\ calls[g].pc = "getret"
        /\ \E v \in ReadInstance(instance, calls[g].synced) :
            returns' = returns \cup {[fn |-> "Get", cfg |-> v, err |-> NilErr]}
        /\ calls' = [calls EXCEPT ![g] = [NoCall EXCEPT !.synced = calls[g].synced]]
    /\ UNCHANGED <<instance, once, reads, applied, appCfg>>
    /\ LoadFrame

----------------------------------------------------------------------------
(* Specifications *)

\* the lifecycle of the factory's two backends
Init == InitCommon /\ env \in EnvSmall /\ cfgIn = NoConfig

Next ==
    \/ CreateFromEnvAct
    \/ CreateFromConfigAct
    \/ GetHandlerAct
    \/ GetStoreComposerAct
    \/ GetProviderAct

Spec == Init /\ [][Next]_vars

\* CreateFromEnv under every environment
InitEnv == InitCommon /\ env \in EnvAll /\ cfgIn = NoConfig

NextEnv == CreateFromEnvAct

SpecEnv == InitEnv /\ [][NextEnv]_vars

\* AzureStorage.Initialize under every Azure configuration
InitAzure == InitCommon /\ env = EnvUnset /\ cfgIn \in AzureConfigAll

NextAzure == AzureInitializeAct

SpecAzure == InitAzure /\ [][NextAzure]_vars

\* Register and Get on a registry, Get on the factory's registry
InitRegistry == InitCommon /\ env = EnvUnset /\ cfgIn = NoConfig

NextRegistry ==
    \/ RegisterAct
    \/ RegistryGetAct
    \/ FactoryGetAct

SpecRegistry == InitRegistry /\ [][NextRegistry]_vars

\* Initialize of either backend under the configurations of its provider
InitInitialize ==
    InitCommon /\ env = EnvUnset /\ cfgIn \in MinIOConfigAll \cup AzureConfigAll

NextInitialize == InitializeAct

SpecInitialize == InitInitialize /\ [][NextInitialize]_vars

\* requests writing through the handlers mounted for the factory's backends
InitLock ==
    /\ InitStorage /\ IdleLocks /\ IdleConfig /\ IdleMain /\ IdleLoad
    /\ env \in EnvSmall /\ cfgIn = NoConfig

NextLock ==
    \/ CreateFromEnvAct
    \/ MountAct
    \/ LockAct
    \/ UnlockAct

SpecLock == InitLock /\ [][NextLock]_vars

\* the environment overrides of package config
InitOverrides ==
    /\ InitStorage /\ IdleLocks /\ IdleMain /\ IdleLoad
    /\ env = EnvUnset /\ cfgIn = NoConfig
    /\ environ \in Environs
    /\ fileCfg \in FileConfigs
    /\ appCfg = fileCfg

NextOverrides == OverridesAct

SpecOverrides == InitOverrides /\ [][NextOverrides]_vars

\* os.Environ() for main(): no variable with the prefix, or APP_STORAGE_TYPE
MainEnvirons ==
    {<< >>, <<AppVars.type \o <<"=", "a", "z", "u", "r", "e">>>>}

\* main() of cmd/server, under every environment
InitMain ==
    /\ InitStorage /\ IdleLocks /\ IdleLoad
    /\ env \in EnvAll /\ cfgIn = NoConfig
    /\ environ \in MainEnvirons /\ appCfg = NoAppConfig /\ fileCfg = NoAppConfig
    /\ pc = "load" /\ MainStart

NextMain ==
    \/ MainLoadAct
    \/ MainCreateAct
    \/ MainHandlerAct
    \/ MainRunAct

SpecMain == InitMain /\ [][NextMain]_vars

\* main() and, once it serves, the request handlers and the hook goroutine
InitServe ==
    /\ InitStorage /\ IdleLocks /\ IdleLoad
    /\ env \in EnvSmall /\ cfgIn = NoConfig
    /\ environ \in MainEnvirons /\ appCfg = NoAppConfig /\ fileCfg = NoAppConfig
    /\ pc = "load" /\ MainStart

NextServe ==
    \/ NextMain
    \/ HealthAct
    \/ TusLockAct
    \/ TusUnlockAct
    \/ HookAct

SpecServe == InitServe /\ [][NextServe]_vars

\* concurrent calls of config.Load and config.Get
InitLoad ==
    /\ InitStorage /\ IdleLocks /\ IdleMain
    /\ env = EnvUnset /\ cfgIn = NoConfig
    /\ environ \in MainEnvirons /\ fileCfg = TestConfig /\ appCfg = NoAppConfig
    /\ FreshLoad /\ fileOk \in [ConfigFiles -> BOOLEAN]

NextLoad ==
    \/ LoadCallAct
    \/ GetCallAct
    \/ OnceDoAct
    \/ LoadFileAct
    \/ LoadAssignAct
    \/ LoadReturnAct
    \/ GetReturnAct

SpecLoad == InitLoad /\ [][NextLoad]_vars

\* calls of functions that keep no state: Validate, the service URL, Authenticate
InitCalls == InitCommon /\ env = EnvUnset /\ cfgIn = NoConfig

NextCalls ==
    \/ ValidateAct
    \/ MinioURLAct
    \/ AuthenticateAct

SpecCalls == InitCalls /\ [][NextCalls]_vars

----------------------------------------------------------------------------
(* Properties *)

\* C1: for each backend variant, a GetHandler call made while no Initialize call
\* on that instance has succeeded returns ErrStorageNotConfigured and no
\* handler, whatever the basePath.
C1_GetHandlerBeforeInitialize ==
    last.op = "GetHandler" /\ okCalls[last.inst] = 0 =>
        /\ last.err = <<ErrStorageNotConfigured>>
        /\ last.handler = NilHandler

\* GetHandler on the MinIO backend after an Initialize that got as far as the
\* S3 client and then failed
C1_Witness ==
    /\ last.op = "GetHandler" /\ last.inst = MinIOInst /\ last.arg = "/files/"
    /\ okCalls[MinIOInst] = 0 /\ initCalls[MinIOInst] > 0
    /\ storages[MinIOInst].client # "nil"

\* C2: an instance on which some Initialize call has returned an error is
\* Uninitialized (initialized = false), whatever preceded the call, and stays so.
C2_FailedInitializeIsPermanent ==
    \A i \in Instances : okCalls[i] < initCalls[i] => ~storages[i].initialized

\* C3: over any sequence of factory calls, Initialize is invoked at most once on
\* each registered backend instance.
C3_InitializeAtMostOnce ==
    \A i \in Instances : initCalls[i] <= 1

\* C4: every handler returned by GetHandler and every composer returned by
\* GetStoreComposer after the first successful Initialize of an instance refers
\* to one and the same composer: the one first handed out.
C4_OneComposerPerInstance ==
    /\ last.op = "GetStoreComposer" /\ okCalls[last.inst] > 0 =>
           last.composer.id = first[last.inst]
    /\ last.op = "GetHandler" /\ last.err = NilErr =>
           last.handler.composer = first[last.inst]

\* C5: in every reachable state, an initialized instance's GetStoreComposer
\* gives a composer with a locker and a data store, and an instance on which no
\* Initialize has succeeded gives, with no error, a non-nil empty composer.
C5_ComposerCapabilities ==
    /\ \A i \in Instances :
          /\ storages[i].initialized =>
                /\ GetStoreComposer(storages[i]).UsesLocker
                /\ GetStoreComposer(storages[i]).UsesCore
          /\ okCalls[i] = 0 =>
                /\ GetStoreComposer(storages[i]).id # NilComposer.id
                /\ ~GetStoreComposer(storages[i]).UsesLocker
                /\ ~GetStoreComposer(storages[i]).UsesCore
    /\ last.op = "GetStoreComposer" =>
          /\ last.err = NilErr
          /\ last.composer = storages[last.inst].composer

\* GetStoreComposer on a MinIO backend whose only Initialize failed at bucket
\* creation, beside an initialized Azure backend
C5_Witness ==
    /\ last.op = "GetStoreComposer" /\ last.inst = MinIOInst
    /\ initCalls[MinIOInst] = 1 /\ okCalls[MinIOInst] = 0
    /\ storages[MinIOInst].client # "nil"
    /\ storages[AzureInst].initialized

\* the error outer carries the chain of inner at its end (inner is its cause)
Wraps(outer, inner) ==
    /\ Len(outer) >= Len(inner)
    /\ SubSeq(outer, Len(outer) - Len(inner) + 1, Len(outer)) = inner

\* C6: the resolve-and-initialize path calls Get first and Initialize only if
\* Get succeeded; it returns a non-nil Storage exactly when both succeeded, and
\* otherwise a nil Storage with a non-nil error that carries the underlying
\* failure, so that ErrInvalidConfig is still recognised by errors.Is.
C6_ResolveAndInitialize ==
    last.op \in {"CreateFromEnv", "CreateFromConfig"} /\ last.trace # << >> =>
        /\ last.trace \in {<<"Get">>, <<"Get", "Initialize">>}
        /\ last.trace = <<"Get", "Initialize">> <=> last.getErr = NilErr
        /\ last.storage # NilStorage <=>
              (last.trace = <<"Get", "Initialize">> /\ last.initErr = NilErr)
        /\ last.storage # NilStorage =>
              /\ last.err = NilErr
              /\ last.storage = providers[last.arg]
              /\ storages[last.storage].initialized
        /\ last.storage = NilStorage =>
              /\ last.err # NilErr
              /\ last.getErr # NilErr => Wraps(last.err, last.getErr)
              /\ last.initErr # NilErr => Wraps(last.err, last.initErr)
              /\ ErrorsIs(last.initErr, ErrInvalidConfig) =>
                    ErrorsIs(last.err, ErrInvalidConfig)

\* CreateFromConfig with an Azure configuration that lacks the account key
C6_Witness ==
    /\ last.op = "CreateFromConfig" /\ last.arg = Azure
    /\ last.storage = NilStorage
    /\ ErrorsIs(last.initErr, ErrInvalidConfig)
    /\ Len(last.err) > Len(last.initErr)

\* a property that is not supplied: Properties nil, the key absent, or ""
EmptyProperty(cfg, key) ==
    \/ ~cfg.hasProps
    \/ key \notin DOMAIN cfg.Properties
    \/ cfg.Properties[key] = StrVal("")

\* C7: Azure Initialize fails with InvalidConfig whenever the account name or
\* the account key is empty, whatever the other properties are.
C7_AzureRequiresAccount ==
    /\ last.op = "Initialize"
    /\ EmptyProperty(last.cfg, "accountName") \/ EmptyProperty(last.cfg, "accountKey")
    => /\ ErrorsIs(last.err, ErrInvalidConfig)
       /\ ~storages[AzureInst].initialized

\* Initialize with an account name, an empty account key and every other
\* property supplied
C7_Witness ==
    /\ last.op = "Initialize"
    /\ last.cfg.hasProps /\ DOMAIN last.cfg.Properties = AzureKeys
    /\ last.cfg.Properties["accountName"] = StrVal("acct")
    /\ last.cfg.Properties["accountKey"] = StrVal("")
    /\ \A k \in AzureKeys \ {"accountKey"} : last.cfg.Properties[k].t = "string"
    /\ \A k \in AzureKeys \ {"accountKey"} : last.cfg.Properties[k].s # ""

\* C8: Registry.Get(id) returns an implementation and no error exactly when
\* Register(id, impl) was called before, and otherwise no implementation and a
\* not-found error; on the registry NewFactory builds it succeeds for exactly
\* the MinIO and Azure ids, and fails also for the declared Disk and Memory.
C8_GetFindsRegistered ==
    /\ last.op = "Registry.Get" =>
          IF last.arg \in registered
          THEN last.storage \in Instances /\ last.err = NilErr
          ELSE last.storage = NilStorage /\ last.err = <<"storage provider not found">>
    /\ last.op = "Factory.Get" =>
          IF last.arg \in {MinIO, Azure}
          THEN last.storage \in Instances /\ last.err = NilErr
          ELSE last.storage = NilStorage /\ last.err = <<"storage provider not found">>

\* Get("disk") fails on the factory's registry beside a registry on which Disk
\* has been registered
C8_Witness ==
    /\ last.op = "Factory.Get" /\ last.arg = Disk /\ last.storage = NilStorage
    /\ Disk \in registered /\ RegistryGet(reg, Disk).storage \in Instances

UpperChar(c) ==
    IF \E i \in DOMAIN Lowers : Lowers[i] = c
    THEN Uppers[CHOOSE i \in DOMAIN Lowers : Lowers[i] = c] ELSE c

\* s is word with some of its letters in upper case
CaseVariant(s, word) ==
    /\ Len(s) = Len(word)
    /\ \A i \in 1..Len(word) : s[i] = word[i] \/ s[i] = UpperChar(word[i])

\* C9: every letter-case variant of "minio" or "azure" in STORAGE_TYPE selects
\* that provider, and every other non-empty value makes CreateFromEnv return an
\* unsupported-provider error and a nil Storage with Initialize called on no
\* backend.
C9_SelectorIsLowercased ==
    last.op = "CreateFromEnv" =>
        /\ CaseVariant(env["STORAGE_TYPE"], <<"m", "i", "n", "i", "o">>) =>
              /\ last.inst = MinIOInst /\ last.cfg.Provider = MinIO
              /\ last.trace = <<"Get", "Initialize">>
        /\ CaseVariant(env["STORAGE_TYPE"], <<"a", "z", "u", "r", "e">>) =>
              /\ last.inst = AzureInst /\ last.cfg.Provider = Azure
              /\ last.trace = <<"Get", "Initialize">>
        /\ /\ env["STORAGE_TYPE"] # << >>
           /\ ~CaseVariant(env["STORAGE_TYPE"], <<"m", "i", "n", "i", "o">>)
           /\ ~CaseVariant(env["STORAGE_TYPE"], <<"a", "z", "u", "r", "e">>)
           => /\ last.err = <<"unsupported storage provider">>
              /\ last.storage = NilStorage
              /\ last.trace = << >>
              /\ \A i \in Instances : initCalls[i] = 0

\* STORAGE_TYPE=MinIO initializes the MinIO backend
C9_Witness ==
    /\ last.op = "CreateFromEnv"
    /\ env["STORAGE_TYPE"] = <<"M", "i", "n", "I", "O">>
    /\ last.storage = MinIOInst

\* the texts getEnvBool reads as true, among BoolTexts
TrueTexts ==
    {<<"t", "r", "u", "e">>, <<"T", "R", "U", "E">>, <<"T", "r", "u", "e">>,
     <<"y", "e", "s">>, <<"1">>, <<"o", "n">>, <<"O", "N">>}

\* the string property a variable yields: its value when set, else the default
FromVariable(name, default) ==
    IF env[name] = << >> THEN StrVal(default) ELSE StrVal(Join(env[name]))

NonEmptyString(cfg, key) ==
    /\ cfg.hasProps /\ key \in DOMAIN cfg.Properties
    /\ cfg.Properties[key].t = "string" /\ cfg.Properties[key].s # ""

\* the field is the default when the property is not supplied, and the
\* property's own value when that is a non-empty string
FieldFollows(cfg, key, field, dflt) ==
    /\ EmptyProperty(cfg, key) => field = dflt
    /\ NonEmptyString(cfg, key) => field = cfg.Properties[key].s

\* the stored S3 configuration has endpoint, bucket and region as supplied, and
\* their defaults where they are not
StoredS3Fields ==
    /\ FieldFollows(last.cfg, "endpoint", storages[MinIOInst].config.Endpoint,
                    "localhost:9000")
    /\ FieldFollows(last.cfg, "bucket", storages[MinIOInst].config.Bucket, "uploads")
    /\ FieldFollows(last.cfg, "region", storages[MinIOInst].config.Region, "us-east-1")

NoneSupplied(cfg) ==
    /\ EmptyProperty(cfg, "endpoint")
    /\ EmptyProperty(cfg, "bucket")
    /\ EmptyProperty(cfg, "region")

\* the SDK configuration loaded and the bucket was found or created
S3Answered(a) == a.load /\ (a.head \/ a.create)

\* C11, as stated: S3-compatible Initialize with no endpoint, bucket or region
\* supplied (Properties nil, lacking the keys, or holding empty strings) succeeds
\* and stores "localhost:9000", "uploads" and "us-east-1"; a supplied non-empty
\* string replaces the default of exactly its own field.
C11_DefaultsAlwaysSucceed ==
    last.op = "Initialize" /\ last.inst = MinIOInst =>
        /\ StoredS3Fields
        /\ NoneSupplied(last.cfg) =>
              last.err = NilErr /\ storages[MinIOInst].initialized

\* C11, amended: S3-compatible Initialize stores "localhost:9000", "uploads" and
\* "us-east-1" for an endpoint, bucket or region that is not supplied, and a
\* supplied non-empty string in exactly its own field; with none of the three
\* supplied it succeeds whenever the SDK configuration loads and the bucket is
\* found or created, and otherwise returns the SDK's failure.
C11_S3Defaults ==
    last.op = "Initialize" /\ last.inst = MinIOInst =>
        /\ StoredS3Fields
        /\ NoneSupplied(last.cfg) =>
              IF S3Answered(last.answers)
              THEN last.err = NilErr /\ storages[MinIOInst].initialized
              ELSE ErrorsIs(last.err, "sdk error")

\* Initialize succeeds with an empty endpoint, no bucket and no region, beside a
\* supplied access key
C11_Witness ==
    /\ last.op = "Initialize" /\ last.inst = MinIOInst /\ last.err = NilErr
    /\ last.cfg.hasProps /\ DOMAIN last.cfg.Properties = {"endpoint", "accessKey"}
    /\ last.cfg.Properties["endpoint"] = StrVal("")
    /\ storages[MinIOInst].config.Endpoint = "localhost:9000"
    /\ storages[MinIOInst].config.Bucket = "uploads"
    /\ storages[MinIOInst].config.Region = "us-east-1"
    /\ storages[MinIOInst].config.AccessKey = "ak"

\* the built-in defaults of the recognised properties (minio.go lines 366-375,
\* azure.go lines 42-45)
S3Defaults ==
    [endpoint |-> StrVal("localhost:9000"), bucket |-> StrVal("uploads"),
     region |-> StrVal("us-east-1"), accessKey |-> StrVal("minioadmin"),
     secretKey |-> StrVal("minioadmin"), useSSL |-> BoolVal(FALSE),
     pathStyle |-> BoolVal(TRUE), disableSSL |-> BoolVal(TRUE)]
AzureDefaults ==
    [accountName |-> StrVal(""), accountKey |-> StrVal(""),
     containerName |-> StrVal("uploads"), endpoint |-> StrVal(""),
     blobAccessTier |-> StrVal(""), containerAccessType |-> StrVal("private")]
BuiltInDefaults(s) == IF s.kind = MinIO THEN S3Defaults ELSE AzureDefaults

\* the property is present with a value of another type than its default's
Mistyped(cfg, key, dflt) ==
    cfg.hasProps /\ key \in DOMAIN cfg.Properties /\ cfg.Properties[key].t # dflt.t

WithDefault(cfg, key, dflt) == [cfg EXCEPT !.Properties[key] = dflt]

\* C12: for every recognised property key of either backend, an Initialize call
\* whose Properties hold a value of the wrong type for the key returns the same
\* error (or nil), makes the same SDK calls and leaves the backend in the same
\* state as the call with the built-in default supplied for that key.
C12_MistypedIsDefault ==
    [][last'.op = "Initialize" =>
          \A k \in DOMAIN BuiltInDefaults(storages[last'.inst]) :
             Mistyped(cfgIn, k, BuiltInDefaults(storages[last'.inst])[k]) =>
                LET r == Initialize(storages[last'.inst],
                                    WithDefault(cfgIn, k,
                                        BuiltInDefaults(storages[last'.inst])[k]),
                                    last'.answers, Fresh[last'.inst])
                IN  /\ storages'[last'.inst] = r.s
                    /\ last'.err = r.err
                    /\ last'.sdk = r.sdk]_vars

\* Initialize of the S3 backend succeeds with the string "true" for useSSL, and
\* stores the default false
C12_Witness ==
    /\ last.op = "Initialize" /\ last.inst = MinIOInst /\ last.err = NilErr
    /\ last.cfg.hasProps /\ "useSSL" \in DOMAIN last.cfg.Properties
    /\ last.cfg.Properties["useSSL"] = StrVal("true")
    /\ ~storages[MinIOInst].config.UseSSL
    /\ storages[MinIOInst].initialized

\* the handler returned is a new object, configured as GetHandler configures it
HandlerAsConfigured ==
    /\ last.handler.id = nextHandler - 1
    /\ last.handler.id # NilHandler.id
    /\ last.handler.BasePath = last.arg
    /\ last.handler.NotifyCompleteUploads
    /\ ~last.handler.DisableDownload

\* C13, as stated: after a successful Initialize every GetHandler(basePath) call
\* returns a new handler object configured with basePath, completion
\* notifications enabled and downloads enabled.
C13_EveryCallReturnsHandler ==
    last.op = "GetHandler" /\ okCalls[last.inst] > 0 =>
        last.err = NilErr /\ HandlerAsConfigured

\* C13, amended: after a successful Initialize a GetHandler(basePath) call whose
\* basePath tusd.NewHandler accepts returns a new handler object (never one
\* returned before) configured with basePath, completion notifications enabled
\* and downloads enabled; for a basePath it rejects the call returns no handler
\* and the wrapped error.
C13_FreshHandler ==
    last.op = "GetHandler" /\ okCalls[last.inst] > 0 =>
        IF UrlParses(last.arg)
        THEN last.err = NilErr /\ HandlerAsConfigured
        ELSE /\ last.handler = NilHandler
             /\ Len(last.err) > 1 /\ last.err[1] = "error creating handler"

\* the second handler built
C13_Witness ==
    /\ last.op = "GetHandler" /\ last.err = NilErr /\ okCalls[last.inst] > 0
    /\ last.handler.id = 2 /\ last.arg = "/uploads/"
    /\ last.handler.composer = storages[last.inst].composer.id

\* C14: a GetStoreComposer call returns the backend's composer and leaves its
\* config, SDK client, composer and initialized flag (and every other backend)
\* unchanged, and a call that directly follows a GetStoreComposer call on the
\* same instance returns the identical composer.
C14_GetStoreComposerIsPureRead ==
    [][last'.op = "GetStoreComposer" =>
          /\ storages' = storages
          /\ last'.composer = storages[last'.inst].composer
          /\ last.op = "GetStoreComposer" /\ last.inst = last'.inst =>
                last'.composer = last.composer]_vars

\* the second of two consecutive calls on an initialized backend
C14_Witness ==
    /\ last.op = "GetStoreComposer" /\ okCalls[last.inst] > 0
    /\ last.before = <<last.composer>>
    /\ last.composer.UsesCore /\ last.composer = storages[last.inst].composer

\* C15: while the HTTP layer listens, the backend main() holds has been
\* initialized successfully, by the one Initialize call made, and its handler
\* obtained; after a failed CreateFromEnv or GetHandler the process has exited
\* with status 1 and the HTTP layer is off, as it is in every exited state.
C15_InitializeBeforeServing ==
    /\ http = "listening" =>
          /\ store \in Instances /\ storages[store].initialized
          /\ okCalls[store] = 1 /\ initCalls[store] = 1
          /\ tusHandler # NilHandler /\ tusHandler.composer = storages[store].composer.id
          /\ exited = << >>
    /\ last.op \in {"CreateFromEnv", "GetHandler"} /\ last.err # NilErr =>
          pc = "exited" /\ exited = <<1>> /\ http = "off"
    /\ exited # << >> => http = "off" /\ pc = "exited"
    /\ \A i \in Instances : initCalls[i] <= 1

\* the server listens with the Azure backend initialized
C15_Witness ==
    /\ http = "listening" /\ pc = "serving"
    /\ store = AzureInst /\ storages[AzureInst].initialized
    /\ tusHandler.BasePath = "/files/"

\* C16: of the locks held through the handlers of one backend instance, at most
\* one is the lock of a given upload id.
C16_OneWriterPerUpload ==
    \A l1, l2 \in locks :
        l1.upload = l2.upload /\ l1.locker[1] = l2.locker[1] => l1 = l2

\* C17: a Register(id, impl) call makes Get(id) return impl with no error,
\* whether or not id was registered, reports no error and leaves Get of every
\* other id as it was; no other operation changes the registry, and Get
\* returns the registry's entry.
C17_LastRegistrationWins ==
    [][/\ last'.op = "Register" =>
             /\ RegistryGet(reg', last'.arg) = [storage |-> last'.storage, err |-> NilErr]
             /\ last'.err = NilErr
             /\ \A id \in ProviderIds \ {last'.arg} :
                   RegistryGet(reg', id) = RegistryGet(reg, id)
       /\ last'.op # "Register" => reg' = reg
       /\ last'.op = "Registry.Get" =>
             /\ last'.storage = RegistryGet(reg, last'.arg).storage
             /\ last'.err = RegistryGet(reg, last'.arg).err]_vars

\* Register replaces the implementation of an id, beside another id's entry
C17_Witness ==
    /\ last.op = "Register" /\ last.before = <<MinIOInst>> /\ last.storage = AzureInst
    /\ RegistryGet(reg, last.arg).storage = AzureInst
    /\ \E id \in DOMAIN reg : id # last.arg /\ reg[id] = MinIOInst

\* the environment of the end-to-end scenario
AzureScenario ==
    [EnvUnset EXCEPT !["STORAGE_TYPE"] = <<"a", "z", "u", "r", "e">>,
                     !["AZURE_STORAGE_ACCOUNT"] = <<"a", "c", "c", "t">>,
                     !["AZURE_STORAGE_KEY"] = <<"k", "e", "y">>,
                     !["AZURE_STORAGE_CONTAINER"] = <<"u", "p", "l", "o", "a", "d", "s">>]

\* what CreateFromEnv returned is an initialized Azure backend whose
\* GetHandler("/files/") succeeds
InitializedAzure ==
    /\ last.err = NilErr /\ last.storage = AzureInst
    /\ storages[last.storage].initialized
    /\ storages[last.storage].config.AccountName = "acct"
    /\ storages[last.storage].config.AccountKey = "key"
    /\ storages[last.storage].config.ContainerName = "uploads"
    /\ GetProvider(storages[last.storage]) = Azure
    /\ GetHandler(storages[last.storage], "/files/", nextHandler).err = NilErr

\* C18, as stated: with STORAGE_TYPE=azure, AZURE_STORAGE_ACCOUNT=acct,
\* AZURE_STORAGE_KEY=key and AZURE_STORAGE_CONTAINER=uploads, CreateFromEnv
\* returns an initialized backend whose GetProvider() is Azure and whose
\* GetHandler("/files/") succeeds.
C18_ScenarioAlwaysSucceeds ==
    last.op = "CreateFromEnv" /\ env = AzureScenario => InitializedAzure

\* C18, amended: in that environment CreateFromEnv initializes the Azure
\* backend; when NewAzureService answers it returns that backend, initialized,
\* with GetProvider() Azure and GetHandler("/files/") succeeding, and when
\* NewAzureService fails it returns no backend and that failure, wrapped; every
\* GetHandler("/files/") call on the backend after a success returns no error.
C18_AzureScenario ==
    /\ last.op = "CreateFromEnv" /\ env = AzureScenario =>
          /\ last.inst = AzureInst /\ last.trace = <<"Get", "Initialize">>
          /\ IF last.initErr = NilErr THEN InitializedAzure
             ELSE /\ last.storage = NilStorage
                  /\ last.initErr = Wrap("error creating Azure service", <<"sdk error">>)
                  /\ Wraps(last.err, last.initErr)
    /\ /\ last.op = "GetHandler" /\ last.inst = AzureInst /\ last.arg = "/files/"
       /\ okCalls[AzureInst] > 0
       => last.err = NilErr /\ last.handler.BasePath = "/files/"

\* CreateFromEnv returns the initialized Azure backend in the scenario
C18_Witness ==
    /\ last.op = "CreateFromEnv" /\ env = AzureScenario
    /\ last.storage = AzureInst /\ last.err = NilErr
    /\ storages[AzureInst].initialized
    /\ storages[AzureInst].config.ContainerName = "uploads"

\* C19: GetProvider of each backend instance is the same in every state, MinIO
\* for the MinIOStorage and Azure for the AzureStorage, whatever Initialize
\* calls have succeeded or failed; a GetProvider call returns it and changes
\* nothing.
C19_GetProviderIsFixed ==
    [][/\ \A i \in Instances :
             /\ GetProvider(storages[i]) = IF i = MinIOInst THEN MinIO ELSE Azure
             /\ GetProvider(storages'[i]) = GetProvider(storages[i])
       /\ last'.op = "GetProvider" =>
             /\ last'.provider = IF last'.inst = MinIOInst THEN MinIO ELSE Azure
             /\ UNCHANGED <<env, cfgIn, providers, reg, registered, storages,
                            nextHandler, initCalls, okCalls, first, outside>>]_vars

\* GetProvider on the MinIO backend after one Initialize failed and one succeeded
C19_Witness ==
    /\ last.op = "GetProvider" /\ last.inst = MinIOInst /\ last.provider = MinIO
    /\ initCalls[MinIOInst] = 2 /\ okCalls[MinIOInst] = 1

\* the value os.Environ() gives a variable: << >> when it has no entry
EnvironValue(name) ==
    LET hits == SelectSeq(environ, LAMBDA e : HasPrefix(e, name \o <<"=">>))
    IN  IF hits = << >> THEN << >>
        ELSE <<SubSeq(hits[1], Len(name) + 2, Len(hits[1]))>>

\* a string field is the variable's value when it is set, else the file's value
Overridden(name, field, fileValue) ==
    IF EnvironValue(name) = << >> THEN field = fileValue
    ELSE field = Join(EnvironValue(name)[1])

\* C20: after applyEnvironmentOverrides, the port, debug flag, storage type,
\* logging level, S3 access key, S3 secret key, MinIO endpoint and MinIO bucket
\* of the Config are the values of APP_APP_PORT, APP_APP_DEBUG, APP_STORAGE_TYPE,
\* APP_LOGGING_LEVEL, APP_S3_ACCESSKEY, APP_S3_SECRETKEY, APP_MINIO_ENDPOINT and
\* APP_MINIO_BUCKET where these are set (a decimal port, a true / false debug
\* flag), and the file's values where they are not.
C20_Overrides ==
    last.op = "applyEnvironmentOverrides" =>
        /\ EnvironValue(AppVars.port) = << >> => appCfg.App.Port = fileCfg.App.Port
        /\ EnvironValue(AppVars.port) = <<<<"8", "8", "8", "8">>>> =>
              appCfg.App.Port = 8888
        /\ EnvironValue(AppVars.debug) = << >> => appCfg.App.Debug = fileCfg.App.Debug
        /\ EnvironValue(AppVars.debug) \in {<<<<"t", "r", "u", "e">>>>,
                                             <<<<"T", "R", "U", "E">>>>} =>
              appCfg.App.Debug
        /\ EnvironValue(AppVars.debug) = <<<<"f", "a", "l", "s", "e">>>> =>
              ~appCfg.App.Debug
        /\ Overridden(AppVars.type, appCfg.Storage.Type, fileCfg.Storage.Type)
        /\ Overridden(AppVars.level, appCfg.Logging.Level, fileCfg.Logging.Level)
        /\ Overridden(AppVars.s3access, appCfg.Storage.S3.AccessKey,
                      fileCfg.Storage.S3.AccessKey)
        /\ Overridden(AppVars.s3secret, appCfg.Storage.S3.SecretKey,
                      fileCfg.Storage.S3.SecretKey)
        /\ Overridden(AppVars.endpoint, appCfg.Storage.Minio.Endpoint,
                      fileCfg.Storage.Minio.Endpoint)
        /\ Overridden(AppVars.bucket, appCfg.Storage.Minio.Bucket,
                      fileCfg.Storage.Minio.Bucket)

\* C21: across every interleaving of concurrent Load and Get calls the
\* configuration file is read at most once, the overrides are applied at most
\* once, and all calls that return a configuration return the same instance.
C21_ConfigSingleton ==
    /\ reads <= 1
    /\ applied <= 1
    /\ \A r1, r2 \in returns : r1.cfg # 0 /\ r2.cfg # 0 => r1.cfg = r2.cfg

\* a Load call and a Get call have both returned the configuration, while the
\* other goroutine is inside a call of its own
C21_Witness ==
    /\ \E r \in returns : r.fn = "Load" /\ r.cfg # 0
    /\ \E r \in returns : r.fn = "Get" /\ r.cfg # 0
    /\ \E g \in Goroutines : calls[g].pc # "idle"
    /\ reads = 1 /\ applied = 1

SupportedTypes == {"local", "s3", "azure", "minio"}

\* the field that the selected storage type requires is set
RequiredSet(c) ==
    CASE c.Storage.Type = "local" -> c.Storage.Local.RootDir # ""
      [] c.Storage.Type = "s3" -> c.Storage.S3.Bucket # ""
      [] c.Storage.Type = "azure" -> c.Storage.Azure.ContainerName # ""
      [] c.Storage.Type = "minio" ->
             c.Storage.Minio.Endpoint # "" /\ c.Storage.Minio.Bucket # ""
      [] OTHER -> FALSE

\* the directories of a local configuration can be created
DirsMade(c, mkdir) ==
    c.Storage.Type = "local" =>
        mkdir.rootDir /\ (c.Storage.Local.TempDir # "" => mkdir.tempDir)

\* C22, as stated: Validate returns an error whenever the port is not positive,
\* whenever the storage type is none of local, s3, azure, minio, and whenever the
\* required field of the selected type is empty; it returns nil when the port is
\* positive and the required fields of the selected type are set.
C22_ValidateAsStated ==
    last.op = "Validate" =>
        /\ last.app.App.Port <= 0 => last.err # NilErr
        /\ last.app.Storage.Type \notin SupportedTypes => last.err # NilErr
        /\ ~RequiredSet(last.app) => last.err # NilErr
        /\ last.app.App.Port > 0 /\ RequiredSet(last.app) => last.err = NilErr

\* C22, amended: Validate returns nil exactly when the port is positive, the
\* storage type is one of the four, the required fields of that type are set
\* and, for the local type, os.MkdirAll succeeds on rootDir and on a tempDir
\* that is set; in every other case it returns an error.
C22_Validate ==
    last.op = "Validate" =>
        (last.err = NilErr <=>
            /\ last.app.App.Port > 0
            /\ last.app.Storage.Type \in SupportedTypes
            /\ RequiredSet(last.app)
            /\ DirsMade(last.app, last.mkdir))

\* a local configuration with a port, rootDir and tempDir: rootDir is created,
\* tempDir cannot be, and Validate returns that failure
C22_Witness ==
    /\ last.op = "Validate"
    /\ last.app.App.Port > 0 /\ last.app.Storage.Type = "local"
    /\ last.app.Storage.Local.RootDir # "" /\ last.app.Storage.Local.TempDir # ""
    /\ last.mkdir.rootDir /\ ~last.mkdir.tempDir
    /\ last.err = Wrap("failed to create tempDir", <<"mkdir error">>)

\* C23: an Initialize call that returns an error leaves the instance's stored
\* configuration, client, composer and initialized flag as they were before
\* the call.
C23_FailedInitializeHasNoEffect ==
    [][last'.op = "Initialize" /\ last'.err # NilErr =>
          storages'[last'.inst] = storages[last'.inst]]_vars

\* the endpoint already carries a scheme, by the test the code makes
CarriesScheme(endpoint) == HasPrefix(endpoint, <<"h", "t", "t", "p">>)

\* C24: for every endpoint of every length the service URL is computed without
\* a runtime failure: it is the endpoint itself when that carries a scheme, and
\* otherwise "<protocol>://<endpoint>", the protocol being https exactly when
\* useSSL is true.
C24_ServiceURL ==
    last.op = "minioURL" =>
        /\ ~last.url.panic
        /\ last.url.url =
              IF CarriesScheme(last.chars) THEN last.chars
              ELSE (IF last.flag THEN <<"h", "t", "t", "p", "s">>
                                 ELSE <<"h", "t", "t", "p">>)
                   \o <<":", "/", "/">> \o last.chars

\* the number of times a call occurs in a sequence of SDK calls
Times(call, trace) == Cardinality({i \in 1..Len(trace) : trace[i] = call})

\* C25: S3-compatible Initialize checks the bucket before it assembles the
\* composer: when the check finds the bucket, CreateBucket is not called; when
\* it does not, CreateBucket is called exactly once; when that creation fails
\* Initialize returns an error; and the instance is initialized, with a composer
\* assembled, only after a call in which the bucket was found or created.
C25_BucketVerified ==
    /\ last.op = "Initialize" /\ last.inst = MinIOInst /\ last.answers.load =>
          /\ Times("HeadBucket", last.sdk) = 1
          /\ last.answers.head => Times("CreateBucket", last.sdk) = 0
          /\ ~last.answers.head => Times("CreateBucket", last.sdk) = 1
          /\ ~last.answers.head /\ ~last.answers.create => last.err # NilErr
          /\ last.err = NilErr => last.answers.head \/ last.answers.create
    /\ okCalls[MinIOInst] = 0 =>
          /\ ~storages[MinIOInst].initialized
          /\ ~storages[MinIOInst].composer.UsesCore

\* the bucket was missing and has been created: the instance is initialized
C25_Witness ==
    /\ last.op = "Initialize" /\ last.inst = MinIOInst
    /\ ~last.answers.head /\ last.answers.create
    /\ last.sdk = <<"LoadDefaultConfig", "HeadBucket", "CreateBucket">>
    /\ last.err = NilErr
    /\ storages[MinIOInst].initialized /\ storages[MinIOInst].composer.UsesCore

\* C26: while the HTTP layer is serving, no step of a request handler or of the
\* hook goroutine writes the registry's map or a field of a backend instance.
C26_ReadOnlyWhileServing ==
    [][http = "listening" =>
          UNCHANGED <<providers, reg, registered, storages, initCalls>>]_vars

\* the server is serving: an upload holds its lock and /health has answered
C26_Witness ==
    /\ http = "listening" /\ pc = "serving"
    /\ locks # {}
    /\ last.op = "health" /\ last.provider = MinIO

\* C27: every call of Load or Get returns a Config with a nil error, or no
\* Config with an error; never no Config with a nil error.
C27_NeverNilWithoutError ==
    \A r \in returns :
        \/ r.cfg # 0 /\ r.err = NilErr
        \/ r.cfg = 0 /\ r.err # NilErr

\* C28: the provider main() determined and logged is the storage type of the
\* loaded configuration when that is not empty, otherwise STORAGE_TYPE when it
\* is set, otherwise the S3-compatible default; and the backend that main()
\* has initialized answers GetProvider() with that provider.
C28_InitializedIsLogged ==
    store # NilStorage =>
        /\ storageProvider =
              IF appCfg.Storage.Type # "" THEN appCfg.Storage.Type
              ELSE IF env["STORAGE_TYPE"] # << >> THEN Join(env["STORAGE_TYPE"])
              ELSE MinIO
        /\ GetProvider(storages[store]) = storageProvider

\* the secret properties of a provider's configuration
Secrets(provider) ==
    IF provider = MinIO THEN {"accessKey", "secretKey"} ELSE {"accountKey"}

\* the configurations that differ from cfg in one secret at most: the secret
\* absent, empty, another string, or a value that is no string
SecretVariants(cfg) ==
    {MkConfig(cfg.Provider, TRUE,
              [x \in (DOMAIN cfg.Properties) \cup {k} |->
                  IF x = k THEN v ELSE cfg.Properties[x]]) :
        k \in Secrets(cfg.Provider),
        v \in {StrVal(""), StrVal("s3cr3t"), StrVal("0ther"), BoolVal(TRUE)}}
    \cup
    {MkConfig(cfg.Provider, TRUE,
              [x \in (DOMAIN cfg.Properties) \ {k} |-> cfg.Properties[x]]) :
        k \in Secrets(cfg.Provider)}

\* the keys of the attributes that the records of Initialize may carry
SummaryKeys ==
    {"endpoint", "bucket", "region", "useSSL", "account", "container",
     "customEndpoint", "provider"}

BearerForm(h) ==
    /\ Len(h) > Len(Bearer)
    /\ SubSeq(h, 1, Len(Bearer) + 1) = Bearer \o <<" ">>
    /\ \A i \in (Len(Bearer) + 2)..Len(h) : h[i] # " "

TokenOf(h) == SubSeq(h, Len(Bearer) + 2, Len(h))

\* C30: the middleware calls the next handler exactly when the Authorization
\* header has the form "Bearer <token>" and the verifier accepts the token, and
\* then the request's context carries the user the verifier returned; in every
\* other case it answers 401 Unauthorized and does not call the next handler.
C30_Authenticate ==
    last.op = "Authenticate" =>
        LET accepted == /\ BearerForm(last.chars)
                        /\ VerifyToken(last.verifier, TokenOf(last.chars)).err = NilErr
        IN  /\ last.resp.next <=> accepted
            /\ accepted =>
                  last.resp.user = VerifyToken(last.verifier, TokenOf(last.chars)).user
            /\ ~accepted => last.resp.status = 401 /\ last.resp.body = "Unauthorized"

\* "Bearer abc" under a verifier that accepts abc: the next handler has been
\* called with that verifier's user in the context
C30_Witness ==
    /\ last.op = "Authenticate" /\ last.verifier = "accepts-abc"
    /\ last.chars = Bearer \o <<" ", "a", "b", "c">>
    /\ last.resp.next /\ last.resp.user.ID = "user-1"

====
